---- MODULE Spec2Model ----
(***************************************************************************)
(* Model of the news aggregator's orchestration pipeline.                  *)
(*                                                                         *)
(* Pipeline.run (src/core/base.py) is modelled as a state machine whose    *)
(* steps are the phases of the method: construction of the result,         *)
(* validation, one step per source fetched, the check after the fetch loop,*)
(* the synthesis call, the optional save and render calls, the success     *)
(* epilogue, the two outer exception handlers and the finally block.       *)
(*                                                                         *)
(* The collaborators (fetcher, processor, storage, output, and the         *)
(* logger's save_metrics) are the environment: each call nondeterministic- *)
(* ally returns or raises.  What the environment did is recorded in the    *)
(* call-log variables (fetch_log, proc_out, save_out, gen_out, flush_out,  *)
(* calls), the way a test double records its calls.  The logger's log_*    *)
(* methods (src/core/logger.py:57-181) contain no raise statement and are  *)
(* modelled as returning normally.                                         *)
(***************************************************************************)
EXTENDS Integers, Sequences, FiniteSets, TLC

\* Longest source list handed to run, and most items one fetch returns.
MaxSources == 3
MaxItems == 2

VARIABLES
    fetcher,          \* Pipeline.fetcher is set
    processor,        \* Pipeline.processor is set
    storage,          \* Pipeline.storage is set
    output,           \* Pipeline.output is set
    sources,          \* the `sources` argument: the sources it yields, in order
    sources_kind,     \* "list", "iterator" (iterable without len) or "none"
    pc,               \* position inside run
    results,          \* the `results` dictionary
    duration_set,     \* results['duration'] has been assigned since construction
    all_articles,     \* local all_articles
    failed_sources,   \* local failed_sources
    idx,              \* index of the next source of the for loop
    synthesis,        \* local synthesis
    raised,           \* exception in flight; at "done", the one that left run
    returned,         \* run executed `return results`
    now,              \* datetime.now()
    start_time,       \* local start_time
    calls,            \* number of calls made to each collaborator
    fetch_log,        \* outcome of each fetcher.fetch call, in call order
    proc_out,         \* outcome of processor.process
    save_out,         \* outcome of storage.save
    gen_out,          \* outcome of output.generate
    flush_out         \* outcome of logger.save_metrics

\* create_pipeline and get_llm_processor (src/main.py)
VARIABLES
    cfg_keys,         \* providers whose Config.<X>_API_KEY is set
    env_keys,         \* providers whose key os.getenv finds at construction
    provider_arg,     \* the `provider` argument
    default_provider, \* Config.DEFAULT_LLM_PROVIDER
    entry,            \* the function called: create_pipeline or get_llm_processor
    cp                \* position, locals and outcome of the call

setup_vars == << cfg_keys, env_keys, provider_arg, default_provider, entry, cp >>

\* RSSFetcher._matches_topic (src/components/rss.py)
VARIABLES
    topic_filter,     \* self.topic_filter, a string
    llm_processor,    \* the type of self.llm_processor, or None
    article,          \* the article tested: its title and summary
    mt                \* position and outcome of the call

filter_vars == << topic_filter, llm_processor, article, mt >>

\* RSSFetcher.fetch (src/components/rss.py)
VARIABLES
    feed,             \* what feedparser.parse gives for the source
    max_articles,     \* self.max_articles
    rf                \* position, locals and outcome of the call

fetch_vars == << feed, max_articles, rf >>

vars == << fetcher, processor, storage, output, sources, sources_kind, pc,
           results, duration_set, all_articles, failed_sources, idx,
           synthesis, raised, returned, now, start_time, calls, fetch_log,
           proc_out, save_out, gen_out, flush_out, setup_vars, filter_vars,
           fetch_vars >>

config == << fetcher, processor, storage, output, sources, sources_kind,
             setup_vars, filter_vars, fetch_vars >>

-----------------------------------------------------------------------------
(* Values *)

None == "None"
Absent == "<absent>"

\* Source descriptors are numbered in list order.
SourceIds == 1..MaxSources

\* The lists run is called with: up to MaxSources different sources, or the
\* same source twice.
SourceLists ==
    { [i \in 1..n |-> i] : n \in 0..MaxSources } \cup { << 1, 1 >> }

SourceKinds == {"list", "iterator", "none"}

\* The k-th item fetched from a source.
Item(source, k) == [source |-> source, n |-> k]

\* The list a successful fetch of `source` returns when it yields n items.
Articles(source, n) == [k \in 1..n |-> Item(source, k)]

\* What processor.process may return.
SynthesisValues == {"", "text"}

NoException == [kind |-> "none", detail |-> None]

Exc(kind, detail) == [kind |-> kind, detail |-> detail]

InitResults ==
    [ success            |-> FALSE,
      articles_processed |-> 0,
      errors             |-> << >>,
      output_path        |-> None,
      storage_id         |-> None,
      duration           |-> 0,
      synthesis          |-> Absent ]

NoCalls == [fetch |-> 0, process |-> 0, save |-> 0, generate |-> 0,
            save_metrics |-> 0]

FetchErrorEntry(source) == [phase |-> "fetch", source |-> source]

ProcessErrorEntry == [phase |-> "process", source |-> None]

StorageErrorEntry == [phase |-> "storage", source |-> None]

OutputErrorEntry == [phase |-> "output", source |-> None]

Elapsed == now - start_time

-----------------------------------------------------------------------------
(* Environment: outcomes of the collaborators' calls *)

FetchOutcomes ==
    { [kind |-> "items", n |-> n] : n \in 0..MaxItems }
      \cup { [kind |-> k, n |-> 0] :
                k \in {"FetchError", "Exception", "KeyboardInterrupt"} }

ProcessOutcomes ==
    { [kind |-> "ok", value |-> v] : v \in SynthesisValues }
      \cup { [kind |-> k, value |-> Absent] :
                k \in {"ProcessError", "Exception", "KeyboardInterrupt"} }

SaveOutcomes == {"ok", "StorageError", "Exception", "KeyboardInterrupt"}

GenerateOutcomes == {"ok", "Exception", "KeyboardInterrupt"}

FlushOutcomes == {"ok", "Exception", "KeyboardInterrupt", "SystemExit"}

\* Exceptions that are not of class Exception: no "except Exception" clause
\* catches them.
BaseOnlyKinds == {"KeyboardInterrupt", "SystemExit"}

-----------------------------------------------------------------------------
(* Pipeline set-up: values *)

\* The keys of processors_map, and a name that is not one of them.
KnownProviders == {"anthropic", "openai", "gemini"}

ProviderNames == KnownProviders \cup {"mistral"}

\* The providers whose processor class implements every abstract method of
\* Component and Processor: OpenAIProcessor defines execute and process;
\* ClaudeLLMProcessor and GeminiProcessor define no execute, so that
\* instantiating them raises TypeError before their constructor runs.
ConcreteProviders == {"openai"}

\* No pipeline object.
NoPipeline ==
    [ built                 |-> FALSE,
      fetcher_llm_processor |-> None,
      processor             |-> None,
      storage               |-> FALSE,
      output                |-> FALSE ]

\* Locals of create_pipeline before it is called.
NoSetup ==
    [ pc        |-> "start",
      provider  |-> None,
      available |-> << >>,
      fallback  |-> 0,
      attempts  |-> << >>,
      processor |-> None,
      raised    |-> NoException,
      pipeline  |-> NoPipeline ]

\* No set-up function is being followed.
SetupIdle ==
    /\ cfg_keys = {}
    /\ env_keys = {}
    /\ provider_arg = None
    /\ default_provider = "openai"
    /\ entry = "none"
    /\ cp = NoSetup

-----------------------------------------------------------------------------
(* Relevance filter: values *)

\* Strings are sequences of one-character strings; "" is << >>.
\* No answer of the semantic backend.
NoResponse == [kind |-> "none", text |-> << >>]

\* The state of a call of _matches_topic before it starts.
NoMatchCall ==
    [ pc        |-> "start",
      path      |-> "none",
      llm_calls |-> 0,
      response  |-> NoResponse,
      result    |-> FALSE,
      raised    |-> NoException ]

\* No call of _matches_topic is being followed.
FilterIdle ==
    /\ topic_filter = << >>
    /\ llm_processor = None
    /\ article = [title |-> << >>, summary |-> << >>]
    /\ mt = NoMatchCall

-----------------------------------------------------------------------------
(* RSS fetch: values *)

\* The state of a call of RSSFetcher.fetch before it starts. Articles and
\* entries are named by their position in feed.entries.
NoFetchCall ==
    [ pc        |-> "start",
      pos       |-> 1,
      articles  |-> << >>,
      skipped   |-> {},
      rejected  |-> {},
      llm_calls |-> 0,
      outcome   |-> [kind |-> "none", detail |-> None, source |-> 0] ]

\* No call of RSSFetcher.fetch is being followed.
FetchIdle ==
    /\ feed = [status |-> "parsed", bozo |-> FALSE, entries |-> << >>]
    /\ max_articles = 1
    /\ rf = NoFetchCall

-----------------------------------------------------------------------------
(* State after construction of the pipeline, before run is called *)

Init ==
    /\ SetupIdle
    /\ FilterIdle
    /\ FetchIdle
    /\ fetcher \in BOOLEAN
    /\ processor \in BOOLEAN
    /\ storage \in BOOLEAN
    /\ output \in BOOLEAN
    /\ sources \in SourceLists
    /\ sources_kind \in SourceKinds
    /\ sources_kind = "none" => sources = << >>
    /\ pc = "init"
    /\ results = InitResults
    /\ duration_set = FALSE
    /\ all_articles = << >>
    /\ failed_sources = << >>
    /\ idx = 1
    /\ synthesis = Absent
    /\ raised = NoException
    /\ returned = FALSE
    /\ now \in 0..1
    /\ start_time = 0
    /\ calls = NoCalls
    /\ fetch_log = << >>
    /\ proc_out = "none"
    /\ save_out = "none"
    /\ gen_out = "none"
    /\ flush_out = "none"

-----------------------------------------------------------------------------
(* Steps of Pipeline.run *)

\* Entry: start_time and the results dictionary.
Enter ==
    /\ pc = "init"
    /\ start_time' = now
    /\ results' = InitResults
    /\ pc' = "validate"
    /\ UNCHANGED << config, duration_set, all_articles, failed_sources, idx,
                    synthesis, raised, returned, now, calls, fetch_log,
                    proc_out, save_out, gen_out, flush_out >>

\* Variant of Validate: only the fetcher is required.
ValidateFetcherOnly ==
    /\ pc = "validate"
    /\ IF ~fetcher
         THEN /\ raised' = Exc("AggregatorError", None)
              /\ pc' = "except_aggregator"
              /\ UNCHANGED << all_articles, failed_sources, idx >>
         ELSE /\ all_articles' = << >>
              /\ failed_sources' = << >>
              /\ idx' = 1
              /\ pc' = "fetch"
              /\ UNCHANGED raised
    /\ UNCHANGED << config, results, duration_set, synthesis, returned, now,
                    start_time, calls, fetch_log, proc_out, save_out,
                    gen_out, flush_out >>

\* Validate components, then initialise the fetch phase.
Validate ==
    /\ pc = "validate"
    /\ IF ~fetcher \/ ~processor
         THEN /\ raised' = Exc("AggregatorError", None)
              /\ pc' = "except_aggregator"
              /\ UNCHANGED << all_articles, failed_sources, idx >>
         ELSE /\ all_articles' = << >>
              /\ failed_sources' = << >>
              /\ idx' = 1
              /\ pc' = "fetch"
              /\ UNCHANGED raised
    /\ UNCHANGED << config, results, duration_set, synthesis, returned, now,
                    start_time, calls, fetch_log, proc_out, save_out,
                    gen_out, flush_out >>

\* `for source in sources` over something that is not iterable.
IterateSources ==
    /\ pc = "fetch"
    /\ sources_kind = "none"
    /\ raised' = Exc("TypeError", None)
    /\ pc' = "except_exception"
    /\ UNCHANGED << config, results, duration_set, all_articles,
                    failed_sources, idx, synthesis, returned, now,
                    start_time, calls, fetch_log, proc_out, save_out,
                    gen_out, flush_out >>

\* Variant of FetchResult: an item already in the batch is not added again.
FetchResultDeduplicates(source, out) ==
    CASE out.kind = "items" ->
           /\ all_articles' =
                 all_articles
                   \o SelectSeq(Articles(source, out.n),
                                LAMBDA a : \A k \in 1..Len(all_articles) :
                                              all_articles[k] # a)
           /\ idx' = idx + 1
           /\ UNCHANGED << failed_sources, results, raised, pc >>
      [] out.kind \in {"FetchError", "Exception"} ->
           /\ failed_sources' = Append(failed_sources, source)
           /\ results' = [results EXCEPT
                            !.errors = Append(@, FetchErrorEntry(source))]
           /\ idx' = idx + 1
           /\ UNCHANGED << all_articles, raised, pc >>
      [] out.kind = "KeyboardInterrupt" ->
           /\ raised' = Exc("KeyboardInterrupt", None)
           /\ pc' = "finally"
           /\ UNCHANGED << all_articles, failed_sources, results, idx >>

\* Variant of FetchResult: an interrupt is recorded as a failed source.
FetchResultSwallowsInterrupt(source, out) ==
    CASE out.kind = "items" ->
           /\ all_articles' = all_articles \o Articles(source, out.n)
           /\ idx' = idx + 1
           /\ UNCHANGED << failed_sources, results, raised, pc >>
      [] out.kind \in {"FetchError", "Exception", "KeyboardInterrupt"} ->
           /\ failed_sources' = Append(failed_sources, source)
           /\ results' = [results EXCEPT
                            !.errors = Append(@, FetchErrorEntry(source))]
           /\ idx' = idx + 1
           /\ UNCHANGED << all_articles, raised, pc >>

\* Variant of FetchResult: a failed fetch leaves the loop and fails the run.
FetchResultAborts(source, out) ==
    CASE out.kind = "items" ->
           /\ all_articles' = all_articles \o Articles(source, out.n)
           /\ idx' = idx + 1
           /\ UNCHANGED << failed_sources, results, raised, pc >>
      [] out.kind \in {"FetchError", "Exception"} ->
           /\ failed_sources' = Append(failed_sources, source)
           /\ results' = [results EXCEPT
                            !.errors = Append(@, FetchErrorEntry(source))]
           /\ raised' = Exc("FetchError", source)
           /\ pc' = "except_aggregator"
           /\ UNCHANGED << all_articles, idx >>
      [] out.kind = "KeyboardInterrupt" ->
           /\ raised' = Exc("KeyboardInterrupt", None)
           /\ pc' = "finally"
           /\ UNCHANGED << all_articles, failed_sources, results, idx >>

\* The state of the fetch loop after fetcher.fetch(source) ended with `out`.
FetchResult(source, out) ==
    CASE out.kind = "items" ->
           /\ all_articles' = all_articles \o Articles(source, out.n)
           /\ idx' = idx + 1
           /\ UNCHANGED << failed_sources, results, raised, pc >>
      [] out.kind \in {"FetchError", "Exception"} ->
           /\ failed_sources' = Append(failed_sources, source)
           /\ results' = [results EXCEPT
                            !.errors = Append(@, FetchErrorEntry(source))]
           /\ idx' = idx + 1
           /\ UNCHANGED << all_articles, raised, pc >>
      [] out.kind \in BaseOnlyKinds ->
           /\ raised' = Exc(out.kind, None)
           /\ pc' = "finally"
           /\ UNCHANGED << all_articles, failed_sources, results, idx >>

\* One iteration of the fetch loop.
FetchSource ==
    /\ pc = "fetch"
    /\ sources_kind # "none"
    /\ idx <= Len(sources)
    /\ \E out \in FetchOutcomes :
          /\ fetch_log' = Append(fetch_log, out)
          /\ FetchResult(sources[idx], out)
    /\ calls' = [calls EXCEPT !.fetch = @ + 1]
    /\ now' = now + 1
    /\ UNCHANGED << config, duration_set, synthesis, returned, start_time,
                    proc_out, save_out, gen_out, flush_out >>

\* Variant of CheckArticles: an empty batch is passed on to the processor.
CheckArticlesNoEscalation ==
    /\ pc = "fetch"
    /\ sources_kind # "none"
    /\ idx > Len(sources)
    /\ results' = [results EXCEPT !.articles_processed = Len(all_articles)]
    /\ IF sources_kind = "iterator"
         THEN /\ raised' = Exc("TypeError", None)
              /\ pc' = "except_exception"
         ELSE /\ pc' = "process"
              /\ UNCHANGED raised
    /\ UNCHANGED << config, duration_set, all_articles, failed_sources, idx,
                    synthesis, returned, now, start_time, calls, fetch_log,
                    proc_out, save_out, gen_out, flush_out >>

\* Variant of CheckArticles: counts the sources that answered, not the articles.
CheckArticlesCountsSources ==
    /\ pc = "fetch"
    /\ sources_kind # "none"
    /\ idx > Len(sources)
    /\ IF all_articles = << >>
         THEN /\ raised' = Exc("FetchError", "all_sources")
              /\ pc' = "except_aggregator"
              /\ UNCHANGED results
         ELSE /\ results' = [results EXCEPT
                               !.articles_processed =
                                   Len(sources) - Len(failed_sources)]
              /\ IF sources_kind = "iterator"
                   THEN /\ raised' = Exc("TypeError", None)
                        /\ pc' = "except_exception"
                   ELSE /\ pc' = "process"
                        /\ UNCHANGED raised
    /\ UNCHANGED << config, duration_set, all_articles, failed_sources, idx,
                    synthesis, returned, now, start_time, calls, fetch_log,
                    proc_out, save_out, gen_out, flush_out >>

\* After the loop: no article at all is fatal, otherwise count the articles.
CheckArticles ==
    /\ pc = "fetch"
    /\ sources_kind # "none"
    /\ idx > Len(sources)
    /\ IF all_articles = << >>
         THEN /\ raised' = Exc("FetchError", "all_sources")
              /\ pc' = "except_aggregator"
              /\ UNCHANGED results
         ELSE /\ results' = [results EXCEPT
                               !.articles_processed = Len(all_articles)]
              /\ IF sources_kind = "iterator"
                   THEN /\ raised' = Exc("TypeError", None)
                        /\ pc' = "except_exception"
                   ELSE /\ pc' = "process"
                        /\ UNCHANGED raised
    /\ UNCHANGED << config, duration_set, all_articles, failed_sources, idx,
                    synthesis, returned, now, start_time, calls, fetch_log,
                    proc_out, save_out, gen_out, flush_out >>

\* Variant of ProcessResult: a failed synthesis is recorded and the run goes on.
ProcessResultContinues(out) ==
    CASE out.kind = "ok" ->
           /\ synthesis' = out.value
           /\ pc' = "store"
           /\ UNCHANGED << results, raised >>
      [] out.kind \in {"ProcessError", "Exception"} ->
           /\ results' = [results EXCEPT
                            !.errors = Append(@, ProcessErrorEntry)]
           /\ synthesis' = ""
           /\ pc' = "store"
           /\ UNCHANGED raised
      [] out.kind = "KeyboardInterrupt" ->
           /\ raised' = Exc("KeyboardInterrupt", None)
           /\ pc' = "finally"
           /\ UNCHANGED << results, synthesis >>

\* Variant of ProcessResult: a failed synthesis call is made again.
ProcessResultRetries(out) ==
    CASE out.kind = "ok" ->
           /\ synthesis' = out.value
           /\ pc' = "store"
           /\ UNCHANGED << results, raised >>
      [] out.kind \in {"ProcessError", "Exception"} ->
           /\ IF calls.process = 0
                THEN /\ pc' = "process"
                     /\ UNCHANGED << results, raised >>
                ELSE /\ results' = [results EXCEPT
                                      !.errors = Append(@, ProcessErrorEntry)]
                     /\ raised' = Exc("ProcessError", "processor")
                     /\ pc' = "except_aggregator"
           /\ UNCHANGED synthesis
      [] out.kind = "KeyboardInterrupt" ->
           /\ raised' = Exc("KeyboardInterrupt", None)
           /\ pc' = "finally"
           /\ UNCHANGED << results, synthesis >>

\* The state after processor.process(all_articles) ended with `out`.
ProcessResult(out) ==
    CASE out.kind = "ok" ->
           /\ synthesis' = out.value
           /\ pc' = "store"
           /\ UNCHANGED << results, raised >>
      [] out.kind = "ProcessError" ->
           /\ results' = [results EXCEPT
                            !.errors = Append(@, ProcessErrorEntry)]
           /\ raised' = Exc("ProcessError", "processor")
           /\ pc' = "except_aggregator"
           /\ UNCHANGED synthesis
      [] out.kind = "Exception" ->
           /\ results' = [results EXCEPT
                            !.errors = Append(@, ProcessErrorEntry)]
           /\ raised' = Exc("ProcessError", "unknown")
           /\ pc' = "except_aggregator"
           /\ UNCHANGED synthesis
      [] out.kind = "KeyboardInterrupt" ->
           /\ raised' = Exc("KeyboardInterrupt", None)
           /\ pc' = "finally"
           /\ UNCHANGED << results, synthesis >>

\* Phase 2: the synthesis call.
Process ==
    /\ pc = "process"
    /\ \E out \in ProcessOutcomes :
          /\ proc_out' = out.kind
          /\ ProcessResult(out)
    /\ calls' = [calls EXCEPT !.process = @ + 1]
    /\ now' = now + 1
    /\ UNCHANGED << config, duration_set, all_articles, failed_sources, idx,
                    returned, start_time, fetch_log, save_out, gen_out,
                    flush_out >>

\* Variant of SaveResult: a failed save is recorded and fails the run.
SaveResultFatal(out) ==
    CASE out = "ok" ->
           /\ results' = [results EXCEPT !.storage_id = "id"]
           /\ pc' = "render"
           /\ UNCHANGED raised
      [] out \in {"StorageError", "Exception"} ->
           /\ results' = [results EXCEPT
                            !.errors = Append(@, StorageErrorEntry)]
           /\ raised' = Exc("StorageError", "save")
           /\ pc' = "except_aggregator"
      [] out = "KeyboardInterrupt" ->
           /\ raised' = Exc("KeyboardInterrupt", None)
           /\ pc' = "finally"
           /\ UNCHANGED results

\* The state after storage.save(...) ended with `out`.
SaveResult(out) ==
    CASE out = "ok" ->
           /\ results' = [results EXCEPT !.storage_id = "id"]
           /\ pc' = "render"
           /\ UNCHANGED raised
      [] out \in {"StorageError", "Exception"} ->
           /\ results' = [results EXCEPT
                            !.errors = Append(@, StorageErrorEntry)]
           /\ pc' = "render"
           /\ UNCHANGED raised
      [] out = "KeyboardInterrupt" ->
           /\ raised' = Exc("KeyboardInterrupt", None)
           /\ pc' = "finally"
           /\ UNCHANGED results

\* Phase 3 with a storage configured.
Store ==
    /\ pc = "store"
    /\ storage
    /\ \E out \in SaveOutcomes :
          /\ save_out' = out
          /\ SaveResult(out)
    /\ calls' = [calls EXCEPT !.save = @ + 1]
    /\ now' = now + 1
    /\ UNCHANGED << config, duration_set, all_articles, failed_sources, idx,
                    synthesis, returned, start_time, fetch_log, proc_out,
                    gen_out, flush_out >>

\* Phase 3 without a storage: skipped.
SkipStore ==
    /\ pc = "store"
    /\ ~storage
    /\ pc' = "render"
    /\ UNCHANGED << config, results, duration_set, all_articles,
                    failed_sources, idx, synthesis, raised, returned, now,
                    start_time, calls, fetch_log, proc_out, save_out,
                    gen_out, flush_out >>

\* Variant of GenerateResult: a failed render is recorded and fails the run.
GenerateResultFatal(out) ==
    CASE out = "ok" ->
           /\ results' = [results EXCEPT !.output_path = "path"]
           /\ pc' = "success"
           /\ UNCHANGED raised
      [] out = "Exception" ->
           /\ results' = [results EXCEPT
                            !.errors = Append(@, OutputErrorEntry)]
           /\ raised' = Exc("Exception", None)
           /\ pc' = "except_exception"
      [] out = "KeyboardInterrupt" ->
           /\ raised' = Exc("KeyboardInterrupt", None)
           /\ pc' = "finally"
           /\ UNCHANGED results

\* Variant of GenerateResult: the error list is assigned, not appended to.
GenerateResultOverwrites(out) ==
    CASE out = "ok" ->
           /\ results' = [results EXCEPT !.output_path = "path"]
           /\ pc' = "success"
           /\ UNCHANGED raised
      [] out = "Exception" ->
           /\ results' = [results EXCEPT !.errors = << OutputErrorEntry >>]
           /\ pc' = "success"
           /\ UNCHANGED raised
      [] out = "KeyboardInterrupt" ->
           /\ raised' = Exc("KeyboardInterrupt", None)
           /\ pc' = "finally"
           /\ UNCHANGED results

\* The state after output.generate(...) ended with `out`.
GenerateResult(out) ==
    CASE out = "ok" ->
           /\ results' = [results EXCEPT !.output_path = "path"]
           /\ pc' = "success"
           /\ UNCHANGED raised
      [] out = "Exception" ->
           /\ results' = [results EXCEPT
                            !.errors = Append(@, OutputErrorEntry)]
           /\ pc' = "success"
           /\ UNCHANGED raised
      [] out = "KeyboardInterrupt" ->
           /\ raised' = Exc("KeyboardInterrupt", None)
           /\ pc' = "finally"
           /\ UNCHANGED results

\* Phase 4 with an output configured.
Render ==
    /\ pc = "render"
    /\ output
    /\ \E out \in GenerateOutcomes :
          /\ gen_out' = out
          /\ GenerateResult(out)
    /\ calls' = [calls EXCEPT !.generate = @ + 1]
    /\ now' = now + 1
    /\ UNCHANGED << config, duration_set, all_articles, failed_sources, idx,
                    synthesis, returned, start_time, fetch_log, proc_out,
                    save_out, flush_out >>

\* Phase 4 without an output: skipped.
SkipRender ==
    /\ pc = "render"
    /\ ~output
    /\ pc' = "success"
    /\ UNCHANGED << config, results, duration_set, all_articles,
                    failed_sources, idx, synthesis, raised, returned, now,
                    start_time, calls, fetch_log, proc_out, save_out,
                    gen_out, flush_out >>

\* "Success!": fill in the result and return it.
Succeed ==
    /\ pc = "success"
    /\ results' = [results EXCEPT !.success = TRUE,
                                  !.synthesis = synthesis,
                                  !.duration = Elapsed]
    /\ duration_set' = TRUE
    /\ returned' = TRUE
    /\ pc' = "finally"
    /\ UNCHANGED << config, all_articles, failed_sources, idx, synthesis,
                    raised, now, start_time, calls, fetch_log, proc_out,
                    save_out, gen_out, flush_out >>

\* Variant of ExceptAggregator: re-raises without recording the duration.
ExceptAggregatorNoDuration ==
    /\ pc = "except_aggregator"
    /\ pc' = "finally"
    /\ UNCHANGED << config, results, duration_set, all_articles,
                    failed_sources, idx, synthesis, raised, returned, now,
                    start_time, calls, fetch_log, proc_out, save_out,
                    gen_out, flush_out >>

\* except AggregatorError: record the duration and re-raise.
ExceptAggregator ==
    /\ pc = "except_aggregator"
    /\ results' = [results EXCEPT !.duration = Elapsed]
    /\ duration_set' = TRUE
    /\ pc' = "finally"
    /\ UNCHANGED << config, all_articles, failed_sources, idx, synthesis,
                    raised, returned, now, start_time, calls, fetch_log,
                    proc_out, save_out, gen_out, flush_out >>

\* Variant of ExceptException: the exception is raised again as it is.
ExceptExceptionReraises ==
    /\ pc = "except_exception"
    /\ results' = [results EXCEPT !.duration = Elapsed]
    /\ duration_set' = TRUE
    /\ pc' = "finally"
    /\ UNCHANGED << config, all_articles, failed_sources, idx, synthesis,
                    raised, returned, now, start_time, calls, fetch_log,
                    proc_out, save_out, gen_out, flush_out >>

\* except Exception: record the duration and raise AggregatorError from it.
ExceptException ==
    /\ pc = "except_exception"
    /\ results' = [results EXCEPT !.duration = Elapsed]
    /\ duration_set' = TRUE
    /\ raised' = Exc("AggregatorError", raised.kind)
    /\ pc' = "finally"
    /\ UNCHANGED << config, all_articles, failed_sources, idx, synthesis,
                    returned, now, start_time, calls, fetch_log, proc_out,
                    save_out, gen_out, flush_out >>

\* Variant of Finally: a failure to save the metrics leaves run as an exception.
FinallyPropagates ==
    /\ pc = "finally"
    /\ \E out \in FlushOutcomes :
          /\ flush_out' = out
          /\ IF out # "ok"
               THEN /\ raised' = Exc(out, None)
                    /\ returned' = FALSE
               ELSE UNCHANGED << raised, returned >>
    /\ calls' = [calls EXCEPT !.save_metrics = @ + 1]
    /\ pc' = "done"
    /\ UNCHANGED << config, results, duration_set, all_articles,
                    failed_sources, idx, synthesis, now, start_time,
                    fetch_log, proc_out, save_out, gen_out >>

\* finally: save the metrics.  An Exception from save_metrics is printed and
\* dropped; a KeyboardInterrupt or SystemExit is not caught here: it leaves run
\* in place of the value being returned or of the exception in flight.
Finally ==
    /\ pc = "finally"
    /\ \E out \in FlushOutcomes :
          /\ flush_out' = out
          /\ IF out \in BaseOnlyKinds
               THEN /\ raised' = Exc(out, None)
                    /\ returned' = FALSE
               ELSE UNCHANGED << raised, returned >>
    /\ calls' = [calls EXCEPT !.save_metrics = @ + 1]
    /\ pc' = "done"
    /\ UNCHANGED << config, results, duration_set, all_articles,
                    failed_sources, idx, synthesis, now, start_time,
                    fetch_log, proc_out, save_out, gen_out >>

Next ==
    \/ Enter
    \/ Validate
    \/ IterateSources
    \/ FetchSource
    \/ CheckArticles
    \/ Process
    \/ Store
    \/ SkipStore
    \/ Render
    \/ SkipRender
    \/ Succeed
    \/ ExceptAggregator
    \/ ExceptException
    \/ Finally

Spec == Init /\ [][Next]_vars

-----------------------------------------------------------------------------
(* Observations of a run, read off the collaborators' call logs *)

FetchFailed(i) == fetch_log[i].kind \in {"FetchError", "Exception"}

FetchSucceeded(i) == fetch_log[i].kind = "items"

FailedFetches == { i \in 1..Len(fetch_log) : FetchFailed(i) }

\* Every source of the list was fetched, and fetch i either returned or raised.
AllFetched ==
    /\ Len(fetch_log) = Len(sources)
    /\ \A i \in 1..Len(fetch_log) : FetchFailed(i) \/ FetchSucceeded(i)

\* Number of items the first i fetches returned.
RECURSIVE ItemsReturned(_)
ItemsReturned(i) ==
    IF i = 0 THEN 0
    ELSE ItemsReturned(i - 1)
           + (IF FetchSucceeded(i) THEN fetch_log[i].n ELSE 0)

\* The items the first i fetches returned, in fetch order.
RECURSIVE BatchOf(_)
BatchOf(i) ==
    IF i = 0 THEN << >>
    ELSE BatchOf(i - 1)
           \o (IF FetchSucceeded(i)
                 THEN [k \in 1..fetch_log[i].n |->
                          [source |-> sources[i], n |-> k]]
                 ELSE << >>)

\* One fetch-phase error entry per failed fetch among the first i, in order.
RECURSIVE FetchErrorsOf(_)
FetchErrorsOf(i) ==
    IF i = 0 THEN << >>
    ELSE FetchErrorsOf(i - 1)
           \o (IF FetchFailed(i)
                 THEN << [phase |-> "fetch", source |-> sources[i]] >>
                 ELSE << >>)

\* Number of entries of results['errors'] recorded for `phase`.
ErrorsOfPhase(phase) ==
    Cardinality({ j \in 1..Len(results.errors) :
                     results.errors[j].phase = phase })

IsPrefix(s, t) ==
    /\ Len(s) <= Len(t)
    /\ \A j \in 1..Len(s) : s[j] = t[j]

\* run is leaving, or has left, with a KeyboardInterrupt.
Interrupted == raised.kind = "KeyboardInterrupt"

\* A call made inside the try block was interrupted.
AnyCallInterrupted ==
    \/ \E i \in 1..Len(fetch_log) : fetch_log[i].kind = "KeyboardInterrupt"
    \/ proc_out = "KeyboardInterrupt"
    \/ save_out = "KeyboardInterrupt"
    \/ gen_out = "KeyboardInterrupt"

\* save_metrics was left by a KeyboardInterrupt or a SystemExit, which took
\* the place of what run was returning or raising.
FlushEscaped == flush_out \in BaseOnlyKinds

\* No call after the fetch phase raised into run or was interrupted.
LaterCallsReturn ==
    /\ ~FlushEscaped
    /\ proc_out \notin {"ProcessError", "Exception", "KeyboardInterrupt"}
    /\ save_out # "KeyboardInterrupt"
    /\ gen_out # "KeyboardInterrupt"

\* Exactly one fetch failed and every other source's fetch returned.
ExactlyOneFetchFailed ==
    /\ sources_kind = "list"
    /\ AllFetched
    /\ Cardinality(FailedFetches) = 1

\* The run returned a successful result built from the fetched items, and the
\* failed fetches are in results['errors'] with phase "fetch".
IsolatedOutcome ==
    /\ returned
    /\ raised = NoException
    /\ results.success
    /\ all_articles = BatchOf(Len(fetch_log))
    /\ results.articles_processed = ItemsReturned(Len(fetch_log))
    /\ \A i \in FailedFetches :
          \E j \in 1..Len(results.errors) :
             results.errors[j] = [phase |-> "fetch", source |-> sources[i]]

-----------------------------------------------------------------------------
(* C1: fetch isolation *)

\* C1 as stated: whenever exactly one source's fetch fails and the remaining
\* sources succeed (no later call failing fatally), the finished run has
\* returned success = true built from the remaining items and lists the
\* failed source under phase "fetch".
C1_FetchIsolationAsStated ==
    (pc = "done" /\ ExactlyOneFetchFailed /\ LaterCallsReturn)
       => IsolatedOutcome

\* C1 amended: the same, for runs in which the remaining sources returned at
\* least one item between them.
C1_FetchIsolation ==
    (pc = "done" /\ ExactlyOneFetchFailed /\ LaterCallsReturn
       /\ ItemsReturned(Len(fetch_log)) >= 1)
       => IsolatedOutcome

C1_Witness ==
    /\ pc = "done"
    /\ Len(sources) = 3
    /\ ExactlyOneFetchFailed
    /\ FetchFailed(2)
    /\ results.success
    /\ Len(all_articles) = 3

(* C2: all-fail escalation *)

AllFetchesFailed ==
    /\ sources_kind # "none"
    /\ Len(sources) >= 1
    /\ Len(fetch_log) = Len(sources)
    /\ \A i \in 1..Len(fetch_log) : FetchFailed(i)

\* C2: once the fetch of every source has failed, articles_processed is 0,
\* success is false and processor.process is never called, and the finished
\* run has not returned: it has raised FetchError for "all_sources", unless
\* the metrics flush itself was interrupted.
C2_AllFailEscalation ==
    AllFetchesFailed =>
       /\ results.articles_processed = 0
       /\ ~results.success
       /\ calls.process = 0
       /\ proc_out = "none"
       /\ pc \in {"fetch", "except_aggregator", "finally", "done"}
       /\ pc \in {"except_aggregator", "finally"} =>
             raised = [kind |-> "FetchError", detail |-> "all_sources"]
       /\ pc = "done" =>
             /\ ~returned
             /\ ~FlushEscaped =>
                   raised = [kind |-> "FetchError", detail |-> "all_sources"]

C2_Witness ==
    /\ pc = "done"
    /\ Len(sources) = 3
    /\ AllFetchesFailed
    /\ raised.kind = "FetchError"

(* C3: articles_processed and the number of errors on a successful run *)

\* C3: a run that returned success with no storage or output failure has
\* articles_processed equal to the number of items the successful fetches
\* returned, and results['errors'] holds exactly one entry per failed fetch.
C3_CountsOnSuccess ==
    (pc = "done" /\ returned
       /\ save_out \notin {"StorageError", "Exception"}
       /\ gen_out # "Exception")
       => /\ results.success
          /\ results.articles_processed = ItemsReturned(Len(fetch_log))
          /\ results.errors = FetchErrorsOf(Len(fetch_log))
          /\ Len(results.errors) = Cardinality(FailedFetches)

C3_Witness ==
    /\ pc = "done"
    /\ returned
    /\ Len(sources) = 3
    /\ Cardinality(FailedFetches) = 1
    /\ Len(results.errors) = 1
    /\ results.articles_processed = 4
    /\ save_out = "ok"
    /\ gen_out = "ok"

(* C4: a failed synthesis call is fatal *)

ProcessFailed == proc_out \in {"ProcessError", "Exception"}

\* C4: once processor.process has raised (ProcessError or anything else),
\* success stays false, results['errors'] holds exactly one "process" entry,
\* no synthesis is set in the result, storage.save and output.generate are
\* never called, and the finished run has not returned: it has raised
\* ProcessError, unless the metrics flush itself was interrupted.
C4_ProcessFailureFatal ==
    ProcessFailed =>
       /\ ~results.success
       /\ ErrorsOfPhase("process") = 1
       /\ results.errors[Len(results.errors)] =
             [phase |-> "process", source |-> None]
       /\ results.synthesis = Absent
       /\ calls.save = 0
       /\ calls.generate = 0
       /\ pc \in {"except_aggregator", "finally", "done"}
       /\ pc \in {"except_aggregator", "finally"} => raised.kind = "ProcessError"
       /\ pc = "done" =>
             /\ ~returned
             /\ ~FlushEscaped => raised.kind = "ProcessError"

C4_Witness ==
    /\ pc = "done"
    /\ proc_out = "Exception"
    /\ storage
    /\ output
    /\ raised = [kind |-> "ProcessError", detail |-> "unknown"]
    /\ Len(results.errors) = 2

(* C5: a failed save is recorded and nothing more *)

SaveFailed == save_out \in {"StorageError", "Exception"}

\* C5: once storage.save has raised after a successful synthesis, there is
\* one "storage" entry in results['errors'], storage_id stays unset, the
\* render phase is still entered (output.generate is called when an output
\* is configured), and unless the render call or the metrics flush is
\* interrupted the run returns success = true with the synthesis.
C5_StorageFailureNonFatal ==
    SaveFailed =>
       /\ proc_out = "ok"
       /\ ErrorsOfPhase("storage") = 1
       /\ results.storage_id = None
       /\ pc \in {"render", "success", "finally", "done"}
       /\ (pc \in {"success", "finally", "done"} /\ output)
             => calls.generate = 1
       /\ (pc = "done" /\ gen_out # "KeyboardInterrupt")
             => /\ ~FlushEscaped => (returned /\ raised = NoException)
                /\ results.success
                /\ results.synthesis = synthesis
                /\ results.synthesis \in SynthesisValues

C5_Witness ==
    /\ pc = "done"
    /\ save_out = "StorageError"
    /\ gen_out = "ok"
    /\ results.success
    /\ results.synthesis = "text"
    /\ results.output_path = "path"

(* C6: a failed render is recorded and nothing more; absent phases are skipped *)

\* C6: once output.generate has raised after a successful synthesis there is
\* one "output" entry in results['errors'], output_path stays unset and the
\* run returns success = true with the synthesis (it returns unless the
\* metrics flush is interrupted); a pipeline without output
\* (or storage) never calls it, records no entry for that phase, and the run
\* goes on to success.
C6_OutputFailureNonFatal ==
    /\ gen_out = "Exception" =>
          /\ proc_out = "ok"
          /\ ErrorsOfPhase("output") = 1
          /\ results.output_path = None
          /\ pc \in {"success", "finally", "done"}
          /\ pc = "done" =>
                /\ ~FlushEscaped => (returned /\ raised = NoException)
                /\ results.success
                /\ results.synthesis = synthesis
                /\ results.synthesis \in SynthesisValues
    /\ ~output =>
          /\ calls.generate = 0
          /\ ErrorsOfPhase("output") = 0
          /\ results.output_path = None
    /\ ~storage =>
          /\ calls.save = 0
          /\ ErrorsOfPhase("storage") = 0
          /\ results.storage_id = None
    /\ (pc = "done" /\ proc_out = "ok" /\ ~output
          /\ save_out # "KeyboardInterrupt")
         => (results.success /\ (~FlushEscaped => returned))

C6_Witness ==
    /\ pc = "done"
    /\ gen_out = "Exception"
    /\ save_out = "ok"
    /\ results.success
    /\ results.storage_id = "id"
    /\ results.errors = << [phase |-> "output", source |-> None] >>

(* C7: the metrics are saved exactly once, last, and harmlessly *)

\* C7 as stated: save_metrics has been called exactly once when run is over
\* and not at all before, whatever the exit path; the call is the last step
\* of run, and whether it returns or raises it leaves the result, the return
\* and the exception in flight as they were.
C7_MetricsSavedOnceAsStated ==
    /\ [](calls.save_metrics = (IF pc = "done" THEN 1 ELSE 0))
    /\ [](pc = "done" => (returned <=> raised = NoException))
    /\ [][pc = "finally" =>
            /\ pc' = "done"
            /\ results' = results
            /\ returned' = returned
            /\ raised' = raised]_vars

\* C7 amended: save_metrics has been called exactly once when run is over and
\* not at all before, whatever the exit path; the call is the last step of
\* run and never changes the result; when it returns or raises an exception
\* of class Exception, the return and the exception in flight stay as they
\* were; when it raises a KeyboardInterrupt or a SystemExit, that exception
\* leaves run instead of the return or of the exception in flight.
C7_MetricsSavedOnce ==
    /\ [](calls.save_metrics = (IF pc = "done" THEN 1 ELSE 0))
    /\ [](pc = "done" => (returned <=> raised = NoException))
    /\ [][pc = "finally" =>
            /\ pc' = "done"
            /\ results' = results
            /\ flush_out' \in FlushOutcomes
            /\ flush_out' \notin BaseOnlyKinds =>
                  (returned' = returned /\ raised' = raised)
            /\ flush_out' \in BaseOnlyKinds =>
                  (~returned' /\ raised' = Exc(flush_out', None))]_vars

\* save_metrics is interrupted after the one fetch of the run raised
\* FetchError: the interrupt leaves run in place of the FetchError.
C7_Witness ==
    /\ pc = "done"
    /\ flush_out = "KeyboardInterrupt"
    /\ calls.save_metrics = 1
    /\ Len(sources) = 1
    /\ fetch_log = << [kind |-> "FetchError", n |-> 0] >>
    /\ raised = Exc("KeyboardInterrupt", None)
    /\ ~returned

(* C8: duration *)

\* C8: when run ends by returning, by a fatal fetch or synthesis failure, by a
\* failed precondition or by an unexpected exception (every exit except an
\* interrupt of a phase), results['duration'] has been assigned, and it is
\* the time that passed between the entry into run and the exit: the time
\* spent in the collaborators' calls, one tick each.
C8_DurationSet ==
    (pc \in {"finally", "done"} /\ ~AnyCallInterrupted)
       => /\ duration_set
          /\ results.duration =
                calls.fetch + calls.process + calls.save + calls.generate

C8_Witness ==
    /\ pc = "done"
    /\ raised.kind = "FetchError"
    /\ start_time = 1
    /\ duration_set
    /\ results.duration = 3

(* C9: success implies a non-empty synthesis *)

\* C9: whenever results['success'] is true, the synthesis in the result is
\* non-empty and articles_processed is at least 1.
C9_SuccessImpliesSynthesis ==
    results.success =>
       /\ results.synthesis \notin {"", Absent}
       /\ results.articles_processed >= 1

(* C10: errors are append-only and success is set once *)

\* C10: every step of a run leaves the entries already in results['errors']
\* in place (it can only append), and never turns success from true to false.
C10_ErrorsAppendOnly ==
    [][ /\ IsPrefix(results.errors, results'.errors)
        /\ results.success => results'.success ]_vars

C10_Witness ==
    /\ pc = "done"
    /\ results.success
    /\ Len(results.errors) = 4
    /\ results.errors[3].phase = "storage"
    /\ results.errors[4].phase = "output"

-----------------------------------------------------------------------------
(* C11: the phases of a run *)

\* The try block of run ended, or is ending, with an exception other than an
\* interrupt: a handler is running or has run, and success stayed false.
Failing ==
    \/ pc \in {"except_aggregator", "except_exception"}
    \/ pc \in {"finally", "done"} /\ ~AnyCallInterrupted /\ ~results.success

\* The phase of the run a state of run belongs to.  AGGREGATED is the instant
\* between the check of the batch and the synthesis call; SYNTHESIZING is the
\* state in which the batch is ready and processor.process is the next call.
Phase ==
    CASE Failing -> "FAILED"
      [] pc \in {"finally", "done"} /\ AnyCallInterrupted -> "CANCELLED"
      [] pc \in {"init", "validate"} -> "INIT"
      [] pc = "fetch" -> "FETCHING"
      [] pc = "process" -> "SYNTHESIZING"
      [] pc = "store" -> "PERSISTING"
      [] pc = "render" -> "RENDERING"
      [] OTHER -> "DONE"

PhaseRank(ph) ==
    CASE ph = "INIT" -> 0
      [] ph = "FETCHING" -> 1
      [] ph = "SYNTHESIZING" -> 3
      [] ph = "PERSISTING" -> 4
      [] ph = "RENDERING" -> 5
      [] ph = "DONE" -> 6
      [] OTHER -> 7

\* The run moves forward through the phases and FAILED is absorbing.
PhasesLinear ==
    /\ PhaseRank(Phase') >= PhaseRank(Phase)
    /\ Phase = "FAILED" => Phase' = "FAILED"
    /\ Phase = "DONE" => Phase' = "DONE"

\* C11 as stated: the phases are linear with no backward transition, and
\* FAILED is entered only from FETCHING with zero items collected or from
\* SYNTHESIZING with a failed backend call.
C11_PhasesAsStated ==
    [][ /\ PhasesLinear
        /\ (Phase # "FAILED" /\ Phase' = "FAILED") =>
              \/ Phase = "FETCHING" /\ all_articles = << >>
                   /\ idx > Len(sources)
              \/ Phase = "SYNTHESIZING" /\ ProcessFailed' ]_vars

\* C11 amended: the phases are linear with no backward transition, FAILED is
\* absorbing, and FAILED is entered only from INIT (no fetcher or no
\* processor configured), from FETCHING (zero items collected, or a `sources`
\* argument that cannot be iterated or measured) or from SYNTHESIZING (the
\* backend call failed); PERSISTING and RENDERING never lead to FAILED.
C11_Phases ==
    [][ /\ PhasesLinear
        /\ (Phase # "FAILED" /\ Phase' = "FAILED") =>
              \/ Phase = "INIT" /\ pc = "validate"
                   /\ (~fetcher \/ ~processor)
              \/ Phase = "FETCHING" /\ all_articles = << >>
                   /\ idx > Len(sources)
              \/ Phase = "FETCHING" /\ sources_kind # "list"
                   /\ raised'.kind = "TypeError"
              \/ Phase = "SYNTHESIZING" /\ ProcessFailed' ]_vars

C11_Witness ==
    /\ pc = "done"
    /\ Phase = "FAILED"
    /\ raised.kind = "AggregatorError"
    /\ ~processor
    /\ fetcher
    /\ calls.fetch = 0

(* C12: no retries *)

\* C12: processor.process is called at most once in a run, and the i-th call
\* of fetcher.fetch is the fetch of the i-th source, so that every source is
\* fetched at most once, and exactly once when the fetch loop runs to its end.
C12_NoRetry ==
    /\ [](calls.process <= 1)
    /\ [](calls.fetch = Len(fetch_log) /\ calls.fetch <= Len(sources))
    /\ []((pc \notin {"init", "validate", "fetch"}
            /\ ~AnyCallInterrupted /\ fetcher /\ processor
            /\ sources_kind # "none")
              => calls.fetch = Len(sources))
    /\ [][ /\ calls'.fetch # calls.fetch =>
                (idx = calls.fetch + 1 /\ calls'.fetch = calls.fetch + 1)
           /\ calls'.process # calls.process =>
                (calls.process = 0 /\ calls'.process = 1) ]_vars

C12_Witness ==
    /\ pc = "done"
    /\ ProcessFailed
    /\ calls.process = 1
    /\ calls.fetch = 3
    /\ Cardinality(FailedFetches) = 2

-----------------------------------------------------------------------------
(* create_pipeline and get_llm_processor *)

\* Variant of AvailableProviders: lists openai before anthropic.
AvailableProvidersOpenAIFirst(keys) ==
    SelectSeq(<< "openai", "anthropic", "gemini" >>, LAMBDA p : p \in keys)

\* Config.get_available_providers: the providers with a key, in this order.
AvailableProviders(keys) ==
    SelectSeq(<< "anthropic", "openai", "gemini" >>, LAMBDA p : p \in keys)

\* Variant of GetLlmProcessor: an unknown name is reported as a missing key.
GetLlmProcessorNoUnknownCheck(provider) ==
    IF provider \notin KnownProviders \/ provider \notin cfg_keys
      THEN [ok |-> FALSE, processor |-> None,
            error |-> Exc("ConfigError", "API_KEY")]
      ELSE IF provider \notin ConcreteProviders
             THEN [ok |-> FALSE, processor |-> None,
                   error |-> Exc("TypeError", "abstract")]
             ELSE IF provider \notin env_keys
                    THEN [ok |-> FALSE, processor |-> None,
                          error |-> Exc("ConfigError", "API_KEY")]
                    ELSE [ok |-> TRUE, processor |-> provider,
                          error |-> NoException]

\* get_llm_processor(provider): the processor built, or the exception raised:
\* ConfigError by the function for an unknown name or a key missing from
\* Config; TypeError by the instantiation of a class that leaves execute
\* abstract; ConfigError by the constructor for a key missing from the
\* environment.
GetLlmProcessor(provider) ==
    IF provider \notin KnownProviders
      THEN [ok |-> FALSE, processor |-> None,
            error |-> Exc("ConfigError", "LLM_PROVIDER")]
      ELSE IF provider \notin cfg_keys
             THEN [ok |-> FALSE, processor |-> None,
                   error |-> Exc("ConfigError", "API_KEY")]
             ELSE IF provider \notin ConcreteProviders
                    THEN [ok |-> FALSE, processor |-> None,
                          error |-> Exc("TypeError", "abstract")]
                    ELSE IF provider \notin env_keys
                           THEN [ok |-> FALSE, processor |-> None,
                                 error |-> Exc("ConfigError", "API_KEY")]
                           ELSE [ok |-> TRUE, processor |-> provider,
                                 error |-> NoException]

\* Variant of AssembledPipeline: the fetcher is given the processor as its
\* semantic backend.
AssembledPipelineWithBackend(proc) ==
    [ built                 |-> TRUE,
      fetcher_llm_processor |->
          CASE proc = "openai" -> "OpenAIProcessor"
            [] proc = "gemini" -> "GeminiProcessor"
            [] OTHER -> "ClaudeLLMProcessor",
      processor             |-> proc,
      storage               |-> TRUE,
      output                |-> TRUE ]

\* The pipeline create_pipeline assembles around `proc`: an RSSFetcher built
\* without llm_processor, the processor, a JSONStorage and a MarkdownOutput.
AssembledPipeline(proc) ==
    [ built                 |-> TRUE,
      fetcher_llm_processor |-> None,
      processor             |-> proc,
      storage               |-> TRUE,
      output                |-> TRUE ]

\* No call of Pipeline.run is being followed.
RunIdle ==
    /\ fetcher = FALSE
    /\ processor = FALSE
    /\ storage = FALSE
    /\ output = FALSE
    /\ sources = << >>
    /\ sources_kind = "list"
    /\ pc = "idle"
    /\ results = InitResults
    /\ duration_set = FALSE
    /\ all_articles = << >>
    /\ failed_sources = << >>
    /\ idx = 1
    /\ synthesis = Absent
    /\ raised = NoException
    /\ returned = FALSE
    /\ now = 0
    /\ start_time = 0
    /\ calls = NoCalls
    /\ fetch_log = << >>
    /\ proc_out = "none"
    /\ save_out = "none"
    /\ gen_out = "none"
    /\ flush_out = "none"

SetupInit ==
    /\ cfg_keys \in SUBSET KnownProviders
    /\ env_keys \in SUBSET KnownProviders
    /\ provider_arg \in ProviderNames \cup {None}
    /\ default_provider \in ProviderNames
    /\ entry \in {"create_pipeline", "get_llm_processor"}
    /\ cp = NoSetup
    /\ RunIdle
    /\ FilterIdle
    /\ FetchIdle

run_vars == << fetcher, processor, storage, output, sources, sources_kind,
               pc, results, duration_set, all_articles, failed_sources, idx,
               synthesis, raised, returned, now, start_time, calls,
               fetch_log, proc_out, save_out, gen_out, flush_out >>

setup_inputs == << cfg_keys, env_keys, provider_arg, default_provider, entry >>

\* A direct call get_llm_processor(provider_arg, logger).
CallGetLlmProcessor ==
    /\ entry = "get_llm_processor"
    /\ cp.pc = "start"
    /\ LET r == GetLlmProcessor(provider_arg)
       IN  cp' = [cp EXCEPT !.pc = "done",
                            !.provider = provider_arg,
                            !.attempts = << provider_arg >>,
                            !.processor = r.processor,
                            !.raised = r.error]
    /\ UNCHANGED << setup_inputs, run_vars, filter_vars, fetch_vars >>

\* Variant of SelectProvider: does not stop when no provider has a key.
SelectProviderNoCheck ==
    /\ entry = "create_pipeline"
    /\ cp.pc = "start"
    /\ LET requested == IF provider_arg = None THEN default_provider
                                               ELSE provider_arg
           available == AvailableProviders(cfg_keys)
       IN  cp' = [cp EXCEPT
                    !.pc = "construct",
                    !.available = available,
                    !.provider =
                        IF available # << >>
                             /\ \A i \in 1..Len(available) :
                                   available[i] # requested
                          THEN available[1] ELSE requested]
    /\ UNCHANGED << setup_inputs, run_vars, filter_vars, fetch_vars >>

\* create_pipeline, up to the choice of the provider.
SelectProvider ==
    /\ entry = "create_pipeline"
    /\ cp.pc = "start"
    /\ LET requested == IF provider_arg = None THEN default_provider
                                               ELSE provider_arg
           available == AvailableProviders(cfg_keys)
       IN  IF available = << >>
             THEN cp' = [cp EXCEPT !.pc = "done",
                                   !.raised = Exc("ConfigError", "API_KEYS")]
             ELSE cp' = [cp EXCEPT
                           !.pc = "construct",
                           !.available = available,
                           !.provider =
                               IF \A i \in 1..Len(available) :
                                     available[i] # requested
                                 THEN available[1] ELSE requested]
    /\ UNCHANGED << setup_inputs, run_vars, filter_vars, fetch_vars >>

\* create_pipeline: the processor of the chosen provider.  A ConfigError
\* sends create_pipeline to the fallback loop; any other exception leaves it.
CreateProcessor ==
    /\ cp.pc = "construct"
    /\ LET r == GetLlmProcessor(cp.provider)
       IN  cp' = [cp EXCEPT
                    !.attempts = Append(@, cp.provider),
                    !.processor = r.processor,
                    !.fallback = 1,
                    !.raised = IF r.ok \/ r.error.kind = "ConfigError"
                                 THEN @ ELSE r.error,
                    !.pc = IF r.ok THEN "assemble"
                           ELSE IF r.error.kind = "ConfigError"
                                  THEN "fallback" ELSE "done"]
    /\ UNCHANGED << setup_inputs, run_vars, filter_vars, fetch_vars >>

\* create_pipeline: one iteration of the fallback loop, or its else branch.
\* A ConfigError from a fallback provider makes the loop go on; any other
\* exception leaves create_pipeline from inside the loop.
FallbackProvider ==
    /\ cp.pc = "fallback"
    /\ IF cp.fallback > Len(cp.available)
         THEN cp' = [cp EXCEPT
                       !.pc = "done",
                       !.raised = Exc("ConfigError", "LLM_PROVIDER")]
         ELSE LET p == cp.available[cp.fallback]
                  r == GetLlmProcessor(p)
              IN  IF p = cp.provider
                    THEN cp' = [cp EXCEPT !.fallback = @ + 1]
                    ELSE IF r.ok \/ r.error.kind = "ConfigError"
                      THEN cp' = [cp EXCEPT
                                    !.attempts = Append(@, p),
                                    !.processor = r.processor,
                                    !.fallback = @ + 1,
                                    !.pc = IF r.ok THEN "assemble"
                                                   ELSE "fallback"]
                      ELSE cp' = [cp EXCEPT
                                    !.attempts = Append(@, p),
                                    !.pc = "done",
                                    !.raised = r.error]
    /\ UNCHANGED << setup_inputs, run_vars, filter_vars, fetch_vars >>

\* create_pipeline: the pipeline is put together and returned.
AssemblePipeline ==
    /\ cp.pc = "assemble"
    /\ cp' = [cp EXCEPT !.pc = "done",
                        !.pipeline = AssembledPipeline(cp.processor)]
    /\ UNCHANGED << setup_inputs, run_vars, filter_vars, fetch_vars >>

SetupNext ==
    \/ CallGetLlmProcessor
    \/ SelectProvider
    \/ CreateProcessor
    \/ FallbackProvider
    \/ AssemblePipeline

SetupSpec == SetupInit /\ [][SetupNext]_vars

-----------------------------------------------------------------------------
(* Provider selection *)

\* The provider create_pipeline was asked for: its argument, or the default.
Requested == IF provider_arg = None THEN default_provider ELSE provider_arg

\* The first provider with a key, in the order anthropic, openai, gemini.
FirstByPriority ==
    IF "anthropic" \in cfg_keys THEN "anthropic"
    ELSE IF "openai" \in cfg_keys THEN "openai"
    ELSE "gemini"

\* The provider's processor can be constructed: Config has its key, its class
\* can be instantiated and its constructor finds the key in the environment.
Constructs(p) == p \in cfg_keys \cap env_keys \cap ConcreteProviders

\* C13: when the requested provider has a credential, create_pipeline selects
\* it, the first processor it tries to build is that provider's, and with the
\* provider's key in place the processor is built from it: the pipeline is
\* returned with that processor and no other provider was tried.
C13_RequestedSelected ==
    (entry = "create_pipeline" /\ cp.pc # "start" /\ Requested \in cfg_keys)
        => /\ cp.provider = Requested
           /\ cp.raised.detail # "API_KEYS"
           /\ cp.attempts # << >> => cp.attempts[1] = Requested
           /\ (cp.pc = "done" /\ Requested \in env_keys)
                 => /\ cp.attempts = << Requested >>
                    /\ cp.raised = NoException
                    /\ cp.pipeline.built
                    /\ cp.pipeline.processor = Requested

\* C14: when the requested provider has no credential and some provider has
\* one, create_pipeline selects the first provider with a credential in the
\* order anthropic, openai, gemini, which is not the requested one, tries it
\* first, and when its construction succeeds returns the pipeline with it.
C14_FallbackToFirstAvailable ==
    (entry = "create_pipeline" /\ cp.pc # "start"
       /\ Requested \notin cfg_keys /\ cfg_keys # {})
        => /\ cp.provider = FirstByPriority
           /\ cp.provider # Requested
           /\ cp.provider = cp.available[1]
           /\ cp.available = AvailableProviders(cfg_keys)
           /\ cp.attempts # << >> => cp.attempts[1] = FirstByPriority
           /\ (cp.pc = "done" /\ Constructs(FirstByPriority))
                 => /\ cp.attempts = << FirstByPriority >>
                    /\ cp.raised = NoException
                    /\ cp.pipeline.built
                    /\ cp.pipeline.processor = FirstByPriority

\* 'anthropic' requested with only openai and gemini credentialed.
C14_Witness ==
    /\ entry = "create_pipeline"
    /\ cp.pc = "done"
    /\ provider_arg = "anthropic"
    /\ cfg_keys = {"openai", "gemini"}
    /\ cp.provider = "openai"
    /\ cp.pipeline.built
    /\ cp.pipeline.processor = "openai"

\* C15: when no provider has a credential, create_pipeline raises
\* ConfigError("API_KEYS") whatever was requested, without trying to build a
\* processor and without building a pipeline.
C15_NoCredentialFails ==
    (entry = "create_pipeline" /\ cp.pc # "start" /\ cfg_keys = {})
        => /\ cp.pc = "done"
           /\ cp.raised = Exc("ConfigError", "API_KEYS")
           /\ cp.attempts = << >>
           /\ cp.processor = None
           /\ cp.pipeline = NoPipeline

C15_Witness ==
    /\ entry = "create_pipeline"
    /\ cp.pc = "done"
    /\ cfg_keys = {}
    /\ provider_arg = "openai"
    /\ env_keys = KnownProviders
    /\ cp.raised = Exc("ConfigError", "API_KEYS")

\* C16 as stated: a request for a provider that is not a known backend ends
\* set-up with a configuration error.
C16_UnknownFatalAsStated ==
    (entry # "none" /\ cp.pc = "done"
       /\ (IF entry = "create_pipeline" THEN Requested ELSE provider_arg)
             \notin KnownProviders)
        => cp.raised.kind = "ConfigError"

\* C16: get_llm_processor called with a name that is not a known backend
\* raises ConfigError("LLM_PROVIDER") and builds nothing; create_pipeline
\* never passes such a name to it: it replaces the name by the first provider
\* with a credential, and returns a pipeline iff the processor of that
\* provider can be constructed.
C16_UnknownProvider ==
    /\ (entry = "get_llm_processor" /\ cp.pc = "done"
          /\ provider_arg \notin KnownProviders)
         => /\ cp.raised = Exc("ConfigError", "LLM_PROVIDER")
            /\ cp.processor = None
            /\ cp.pipeline = NoPipeline
    /\ (entry = "create_pipeline" /\ Requested \notin KnownProviders)
         => /\ \A i \in 1..Len(cp.attempts) : cp.attempts[i] \in cfg_keys
            /\ cp.pc \notin {"start", "done"} => cp.provider = FirstByPriority
            /\ cp.pc = "done"
                 => (cp.raised = NoException <=> Constructs(FirstByPriority))
            /\ cp.pc = "done"
                 => (cp.raised = NoException <=> cp.pipeline.built)
            /\ cp.pipeline.built => cp.pipeline.processor = FirstByPriority

C16_Witness ==
    /\ entry = "create_pipeline"
    /\ cp.pc = "done"
    /\ provider_arg = "mistral"
    /\ cfg_keys = {"openai", "gemini"}
    /\ cp.raised = NoException
    /\ cp.pipeline.built
    /\ cp.pipeline.processor = "openai"

-----------------------------------------------------------------------------
(* Relevance filter: strings *)

\* Largest number of words a generated topic is joined from.
MaxKeywords == 4

\* Largest length of a generated title.
MaxTitleLen == 2

\* A string is the sequence of its characters, and the characters are those
\* of Latin-1 (code points 0 to 255).  The capital letters among them, A to Z
\* and U+00C0 to U+00DE without the multiplication sign, and their small
\* letters, in the same order.
UpperLetters ==
    << "A", "B", "C", "D", "E", "F", "G", "H", "I", "J", "K", "L", "M",
       "N", "O", "P", "Q", "R", "S", "T", "U", "V", "W", "X", "Y", "Z",
       "À", "Á", "Â", "Ã", "Ä", "Å", "Æ", "Ç", "È", "É", "Ê", "Ë", "Ì",
       "Í", "Î", "Ï", "Ð", "Ñ", "Ò", "Ó", "Ô", "Õ", "Ö", "Ø", "Ù", "Ú",
       "Û", "Ü", "Ý", "Þ" >>

LowerLetters ==
    << "a", "b", "c", "d", "e", "f", "g", "h", "i", "j", "k", "l", "m",
       "n", "o", "p", "q", "r", "s", "t", "u", "v", "w", "x", "y", "z",
       "à", "á", "â", "ã", "ä", "å", "æ", "ç", "è", "é", "ê", "ë", "ì",
       "í", "î", "ï", "ð", "ñ", "ò", "ó", "ô", "õ", "ö", "ø", "ù", "ú",
       "û", "ü", "ý", "þ" >>

\* The small letter of each capital letter, and the capital of each small one.
LowerMap ==
    [ c \in { UpperLetters[i] : i \in 1..Len(UpperLetters) } |->
        LowerLetters[CHOOSE i \in 1..Len(UpperLetters) : UpperLetters[i] = c] ]

UpperMap ==
    [ c \in { LowerLetters[i] : i \in 1..Len(LowerLetters) } |->
        UpperLetters[CHOOSE i \in 1..Len(LowerLetters) : LowerLetters[i] = c] ]

\* str.lower of one character: always one character.
LowerChar(c) == IF c \in DOMAIN LowerMap THEN LowerMap[c] ELSE c

\* str.upper of one character, as a sequence of characters: the sharp s
\* becomes two letters; the capitals of the y with diaeresis (U+00FF) and of
\* the micro sign (U+00B5) lie outside Latin-1 and are written here by their
\* code points.
UpperChar(c) ==
    IF c \in DOMAIN UpperMap THEN << UpperMap[c] >>
    ELSE IF c = "ß" THEN << "S", "S" >>
    ELSE IF c = "ÿ" THEN << "U+0178" >>
    ELSE IF c = "µ" THEN << "U+039C" >>
    ELSE << c >>

Lower(s) == [i \in 1..Len(s) |-> LowerChar(s[i])]

RECURSIVE Upper(_)
Upper(s) ==
    IF s = << >> THEN << >> ELSE UpperChar(Head(s)) \o Upper(Tail(s))

\* The whitespace characters str.split and str.strip look for: space, tab,
\* line feed, carriage return, form feed, vertical tab (U+000B), the four
\* separators U+001C to U+001F, next line (U+0085) and no-break space
\* (U+00A0).
Whitespace ==
    { " ", "\t", "\n", "\r", "\f",
      "", "", "", "", "", "", " " }

IsSpace(c) == c \in Whitespace

\* str.split(): the maximal runs of non-whitespace characters, in order.
RECURSIVE SplitWords(_, _, _)
SplitWords(s, word, words) ==
    IF s = << >>
      THEN IF word = << >> THEN words ELSE Append(words, word)
      ELSE IF IsSpace(Head(s))
             THEN SplitWords(Tail(s), << >>,
                             IF word = << >> THEN words
                                             ELSE Append(words, word))
             ELSE SplitWords(Tail(s), Append(word, Head(s)), words)

Split(s) == SplitWords(s, << >>, << >>)

\* str.strip(): without leading and trailing whitespace.
RECURSIVE StripLeft(_)
StripLeft(s) ==
    IF s # << >> /\ IsSpace(Head(s)) THEN StripLeft(Tail(s)) ELSE s

RECURSIVE StripRight(_)
StripRight(s) ==
    IF s # << >> /\ IsSpace(s[Len(s)])
      THEN StripRight(SubSeq(s, 1, Len(s) - 1)) ELSE s

Strip(s) == StripRight(StripLeft(s))

\* str.startswith
StartsWith(s, prefix) ==
    /\ Len(s) >= Len(prefix)
    /\ SubSeq(s, 1, Len(prefix)) = prefix

\* `keyword in text` for strings: keyword is a substring of text.
Contains(text, keyword) ==
    \E i \in 0..(Len(text) - Len(keyword)) :
        SubSeq(text, i + 1, i + Len(keyword)) = keyword

\* ' '.join(words)
RECURSIVE Join(_)
Join(words) ==
    IF words = << >> THEN << >>
    ELSE IF Len(words) = 1 THEN words[1]
    ELSE words[1] \o << " " >> \o Join(Tail(words))

-----------------------------------------------------------------------------
(* Relevance filter: inputs *)

\* 'electric vehicles' and 'Tesla unveils new battery'
ElectricVehicles ==
    << "e", "l", "e", "c", "t", "r", "i", "c", " ",
       "v", "e", "h", "i", "c", "l", "e", "s" >>

TeslaTitle ==
    << "T", "e", "s", "l", "a", " ", "u", "n", "v", "e", "i", "l", "s", " ",
       "n", "e", "w", " ", "b", "a", "t", "t", "e", "r", "y" >>

\* Topics: up to MaxKeywords words joined by single spaces; an empty word
\* gives a leading, trailing or doubled space, and a whitespace-only topic.
TopicWords == { << >>, << "e" >>, << "E", "v" >> }

\* Topics with a capital outside ASCII, and with keywords separated by a
\* form feed, a tab or a no-break space: 'Év', 'e<FF>x', 'x<TAB>E',
\* 'e<NBSP>x', and a no-break space alone.
OtherTopics ==
    { << "É", "v" >>, << "e", "\f", "x" >>, << "x", "\t", "E" >>,
      << "e", " ", "x" >>, << " " >> }

Topics ==
    { Join(ws) : ws \in UNION { [1..n -> TopicWords] : n \in 0..MaxKeywords } }
        \cup { ElectricVehicles } \cup OtherTopics

TitleChars == { "v", "E" }

\* Titles are not empty: _parse_entry drops an entry without a title.
Titles ==
    UNION { [1..n -> TitleChars] : n \in 1..MaxTitleLen }
        \cup { TeslaTitle, << "é", "V" >> }

Summaries == { << >>, << "v" >> }

\* The types _call_llm_for_filter knows, and any other processor object.
KnownProcessorTypes ==
    { "OpenAIProcessor", "GeminiProcessor", "ClaudeLLMProcessor" }

ProcessorTypes == KnownProcessorTypes \cup { "OtherProcessor" }

\* Answers of the backend: 'YES', ' yes.', 'NO', '', 'Maybe yes', 'Yes\n',
\* 'YES' after a form feed, 'yes' after a no-break space, and 'ye' followed
\* by a sharp s.
Responses ==
    { << "Y", "E", "S" >>, << " ", "y", "e", "s", "." >>,
      << "N", "O" >>, << >>,
      << "M", "a", "y", "b", "e", " ", "y", "e", "s" >>,
      << "Y", "e", "s", "\n" >>,
      << "\f", "Y", "E", "S" >>, << " ", "y", "e", "s" >>,
      << "y", "e", "ß" >> }

\* What the client call of _call_llm_for_filter produces: a text, an
\* exception of the client, an answer without text (None), or an exception
\* that is not of class Exception (an interrupt, an exit).
LlmOutcomes ==
    { [kind |-> "text", text |-> r] : r \in Responses }
        \cup { [kind |-> k, text |-> << >>] :
                 k \in {"api_error", "malformed"} \cup BaseOnlyKinds }

-----------------------------------------------------------------------------
(* RSSFetcher._keyword_match, _llm_match, _matches_topic *)

Max(a, b) == IF a >= b THEN a ELSE b

\* The text _keyword_match searches: f"{title} {summary}".lower()
Searchable(art) == Lower(art.title \o << " " >> \o art.summary)

\* Variant of KeywordMatch: one keyword found is always enough.
KeywordMatchAnyKeyword(topic, art) ==
    LET searchable == Searchable(art)
        keywords == Split(Lower(topic))
        matches == Cardinality({ i \in 1..Len(keywords) :
                                   Contains(searchable, keywords[i]) })
    IN  matches >= 1

\* Variant of KeywordMatch: no floor of one on the threshold.
KeywordMatchNoFloor(topic, art) ==
    LET searchable == Searchable(art)
        keywords == Split(Lower(topic))
        matches == Cardinality({ i \in 1..Len(keywords) :
                                   Contains(searchable, keywords[i]) })
        threshold == Len(keywords) \div 2
    IN  matches >= threshold

\* _keyword_match(article) with self.topic_filter = topic
KeywordMatch(topic, art) ==
    LET searchable == Searchable(art)
        keywords == Split(Lower(topic))
        matches == Cardinality({ i \in 1..Len(keywords) :
                                   Contains(searchable, keywords[i]) })
        threshold == Max(1, Len(keywords) \div 2)
    IN  matches >= threshold

\* Variant of IsRelevant: 'YES' anywhere in the answer.
IsRelevantContainsYes(response) ==
    Contains(Upper(Strip(response)), << "Y", "E", "S" >>)

\* _llm_match: answer = response.strip().upper(); answer.startswith('YES')
IsRelevant(response) == StartsWith(Upper(Strip(response)), << "Y", "E", "S" >>)

FilterInit ==
    /\ topic_filter \in Topics
    /\ llm_processor \in ProcessorTypes \cup { None }
    /\ article \in [title : Titles, summary : Summaries]
    /\ mt = NoMatchCall
    /\ SetupIdle
    /\ RunIdle
    /\ FetchIdle

\* _matches_topic up to the choice of the path.
MatchesTopic ==
    /\ mt.pc = "start"
    /\ mt' = IF topic_filter = << >>
               THEN [mt EXCEPT !.pc = "done", !.result = TRUE]
             ELSE IF llm_processor = None
               THEN [mt EXCEPT !.pc = "keyword_match", !.path = "keyword"]
             ELSE [mt EXCEPT !.pc = "llm_match", !.path = "semantic"]
    /\ UNCHANGED << topic_filter, llm_processor, article, setup_vars, run_vars,
                    fetch_vars >>

\* Variant of LlmMatchResult: a failed backend call means not relevant.
LlmMatchResultFailsClosed(out) ==
    /\ mt.pc = "llm_match"
    /\ IF llm_processor \notin KnownProcessorTypes
         THEN mt' = [mt EXCEPT !.pc = "done", !.result = FALSE,
                               !.response = [kind |-> "unknown_type",
                                             text |-> << >>]]
         ELSE mt' = [mt EXCEPT
                       !.llm_calls = @ + 1,
                       !.response = out,
                       !.pc = "done",
                       !.raised = IF out.kind \in BaseOnlyKinds
                                    THEN Exc(out.kind, None) ELSE @,
                       !.result = IF out.kind = "text"
                                    THEN IsRelevant(out.text) ELSE FALSE]
    /\ UNCHANGED << topic_filter, llm_processor, article, setup_vars, run_vars,
                    fetch_vars >>

\* _llm_match with the client call producing `out`: the parsed answer; on
\* any exception of class Exception (unknown processor type, client error,
\* answer without text) the keyword path; an exception of another class is
\* not caught and leaves _llm_match and _matches_topic.
LlmMatchResult(out) ==
    /\ mt.pc = "llm_match"
    /\ IF llm_processor \notin KnownProcessorTypes
         THEN mt' = [mt EXCEPT !.pc = "keyword_match", !.path = "fallback",
                               !.response = [kind |-> "unknown_type",
                                             text |-> << >>]]
         ELSE mt' = [mt EXCEPT
                       !.llm_calls = @ + 1,
                       !.response = out,
                       !.pc = IF out.kind \in {"text"} \cup BaseOnlyKinds
                                THEN "done" ELSE "keyword_match",
                       !.path = IF out.kind \in {"text"} \cup BaseOnlyKinds
                                  THEN "semantic" ELSE "fallback",
                       !.raised = IF out.kind \in BaseOnlyKinds
                                    THEN Exc(out.kind, None) ELSE @,
                       !.result = IF out.kind = "text"
                                    THEN IsRelevant(out.text) ELSE FALSE]
    /\ UNCHANGED << topic_filter, llm_processor, article, setup_vars, run_vars,
                    fetch_vars >>

LlmMatch == \E out \in LlmOutcomes : LlmMatchResult(out)

\* _keyword_match returns.
KeywordMatchReturns ==
    /\ mt.pc = "keyword_match"
    /\ mt' = [mt EXCEPT !.pc = "done",
                        !.result = KeywordMatch(topic_filter, article)]
    /\ UNCHANGED << topic_filter, llm_processor, article, setup_vars, run_vars,
                    fetch_vars >>

FilterNext ==
    \/ MatchesTopic
    \/ LlmMatch
    \/ KeywordMatchReturns

FilterSpec == FilterInit /\ [][FilterNext]_vars

-----------------------------------------------------------------------------
(* Relevance filter: claims *)

\* The semantic backend was asked and did not give a usable answer.
BackendFailed == mt.response.kind \in {"api_error", "malformed", "unknown_type"}

\* The keywords of a lower-cased topic, by position: the maximal runs of
\* characters other than whitespace, each from its first to its last index.
KeywordRuns(t) ==
    LET starts == { i \in 1..Len(t) :
                      ~IsSpace(t[i]) /\ (i = 1 \/ IsSpace(t[i - 1])) }
        ends == { j \in 1..Len(t) :
                    ~IsSpace(t[j]) /\ (j = Len(t) \/ IsSpace(t[j + 1])) }
    IN  { << i, CHOOSE j \in ends :
                  j >= i /\ \A k \in ends : k >= i => j <= k >> :
          i \in starts }

\* The rule of the keyword heuristic, stated on the title and the summary.
KeywordRule(topic, art) ==
    LET t == Lower(topic)
        runs == KeywordRuns(t)
        n == Cardinality(runs)
        found == { r \in runs :
                     \/ Contains(Lower(art.title), SubSeq(t, r[1], r[2]))
                     \/ Contains(Lower(art.summary), SubSeq(t, r[1], r[2])) }
    IN  Cardinality(found) >= (IF n \div 2 >= 1 THEN n \div 2 ELSE 1)

\* The client call was left by an exception that is not of class Exception.
BackendInterrupted == mt.response.kind \in BaseOnlyKinds

\* C17 as stated: _matches_topic raises nothing and always returns, and
\* whenever the semantic backend failed (client exception, answer without
\* text, unknown processor type) it returns the value of the keyword
\* heuristic for the same topic and article.
C17_FilterNeverThrowsAsStated ==
    /\ mt.raised = NoException
    /\ mt.pc \in {"start", "llm_match", "keyword_match", "done"}
    /\ (mt.pc = "done" /\ BackendFailed)
         => /\ mt.path = "fallback"
            /\ mt.result = KeywordMatch(topic_filter, article)

\* C17 amended: _matches_topic raises no exception of class Exception:
\* whenever the semantic backend failed (client exception, answer without
\* text, unknown processor type) it returns the value of the keyword
\* heuristic for the same topic and article.  It is left by an exception
\* only when the client call is left by a KeyboardInterrupt or a SystemExit,
\* which it passes on without consulting the keyword heuristic.
C17_FilterDegradesToKeyword ==
    /\ mt.pc \in {"start", "llm_match", "keyword_match", "done"}
    /\ (mt.pc = "done" /\ BackendFailed)
         => /\ mt.raised = NoException
            /\ mt.path = "fallback"
            /\ mt.result = KeywordMatch(topic_filter, article)
    /\ mt.raised # NoException <=> BackendInterrupted
    /\ BackendInterrupted
         => /\ mt.pc = "done"
            /\ mt.raised = Exc(mt.response.kind, None)
            /\ mt.path = "semantic"
            /\ mt.llm_calls = 1
            /\ llm_processor \in KnownProcessorTypes

\* The backend raised although the keyword heuristic accepts the article.
C17_Witness ==
    /\ mt.pc = "done"
    /\ mt.response.kind = "api_error"
    /\ llm_processor = "OpenAIProcessor"
    /\ topic_filter = << "e", " ", "E", "v" >>
    /\ article.title = << "E" >>
    /\ mt.result

\* C18: _keyword_match accepts an article iff, of the n whitespace-delimited
\* keywords of the lower-cased topic, at least max(1, n div 2) occur as
\* substrings of the lower-cased title or summary; 'electric vehicles' does
\* not match the title 'Tesla unveils new battery' with an empty summary.
C18_KeywordHeuristic ==
    /\ mt.pc = "start"
         => (KeywordMatch(topic_filter, article)
               <=> KeywordRule(topic_filter, article))
    /\ (mt.pc = "done" /\ mt.path \in {"keyword", "fallback"})
         => mt.result = KeywordRule(topic_filter, article)
    /\ (topic_filter = ElectricVehicles /\ article.title = TeslaTitle
          /\ article.summary = << >>)
         => ~KeywordMatch(topic_filter, article)

C18_Witness ==
    /\ mt.pc = "done"
    /\ mt.path = "keyword"
    /\ topic_filter = ElectricVehicles
    /\ article = [title |-> TeslaTitle, summary |-> << >>]
    /\ ~mt.result

\* C19 as stated: with no semantic backend, a topic without keywords matches
\* every article.
C19_ZeroKeywordsMatchAsStated ==
    (mt.pc = "done" /\ llm_processor = None /\ Split(topic_filter) = << >>)
        => mt.result

\* C19: an empty topic matches every article without the keyword heuristic
\* being consulted; for a topic without keywords the keyword heuristic
\* matches no article, so a whitespace-only topic rejects every article on
\* the keyword path.
C19_ZeroKeywords ==
    /\ (mt.pc = "done" /\ topic_filter = << >>)
         => (mt.result /\ mt.path = "none" /\ mt.llm_calls = 0)
    /\ Split(topic_filter) = << >> => ~KeywordMatch(topic_filter, article)
    /\ (mt.pc = "done" /\ topic_filter # << >>
          /\ Split(topic_filter) = << >>
          /\ mt.path \in {"keyword", "fallback"})
         => ~mt.result

C19_Witness ==
    /\ mt.pc = "done"
    /\ llm_processor = None
    /\ topic_filter = << " " >>
    /\ mt.path = "keyword"
    /\ ~mt.result

-----------------------------------------------------------------------------
(* RSSFetcher.fetch, called by the fetch loop of Pipeline.run *)

\* Largest number of entries of a feed.
MaxEntries == 3

\* Largest value of max_articles.
MaxArticles == 2

\* Entries of a feed: two with a title and a link, one with an empty title,
\* one without a link.
FeedEntries ==
    { [title |-> << "E" >>, summary |-> << >>, link |-> TRUE],
      [title |-> << "v" >>, summary |-> << >>, link |-> TRUE],
      [title |-> << >>, summary |-> << >>, link |-> TRUE],
      [title |-> << "E" >>, summary |-> << >>, link |-> FALSE] }

\* What feedparser.parse gives: a parsed feed, well-formed or not (bozo),
\* an exception of class Exception ("raises"), or an exception that is not
\* of class Exception (an interrupt, an exit).
Feeds ==
    { [status |-> "parsed", bozo |-> b, entries |-> es] :
        b \in BOOLEAN,
        es \in UNION { [1..n -> FeedEntries] : n \in 0..MaxEntries } }
      \cup { [status |-> st, bozo |-> FALSE, entries |-> << >>] :
               st \in {"raises"} \cup BaseOnlyKinds }

\* Topics of a fetch: none, whitespace only, one keyword.
FetchTopics == { << >>, << " " >>, << "e" >> }

\* Variant of IsValidEntry: the link is not looked at.
IsValidEntryTitleOnly(e) == e.title # << >>

\* _parse_entry returns an article only for an entry with a title and a link.
IsValidEntry(e) == e.title # << >> /\ e.link

\* FetchError(source, ...) raised by fetch(source), called by the fetch loop
\* with sources[idx].
FetchErrorOutcome(detail) ==
    [kind |-> "FetchError", detail |-> detail, source |-> sources[idx]]

\* fetch is left by an exception that neither of its except clauses catches.
UncaughtOutcome(kind) == [kind |-> kind, detail |-> None, source |-> 0]

\* The locals after articles.append(article) for the entry at rf.pos: the
\* loop ends once max_articles articles are collected.
AfterAppend ==
    LET articles == Append(rf.articles, rf.pos)
    IN  [rf EXCEPT !.articles = articles,
                   !.pos = @ + 1,
                   !.pc = IF Len(articles) >= max_articles
                            THEN "after_loop" ELSE "loop"]

\* Pipeline.run has validated its components and is about to fetch its only
\* source.
RunAtFetch ==
    /\ fetcher = TRUE
    /\ processor = TRUE
    /\ storage = TRUE
    /\ output = TRUE
    /\ sources = << 1 >>
    /\ sources_kind = "list"
    /\ pc = "fetch"
    /\ results = InitResults
    /\ duration_set = FALSE
    /\ all_articles = << >>
    /\ failed_sources = << >>
    /\ idx = 1
    /\ synthesis = Absent
    /\ raised = NoException
    /\ returned = FALSE
    /\ now = 0
    /\ start_time = 0
    /\ calls = NoCalls
    /\ fetch_log = << >>
    /\ proc_out = "none"
    /\ save_out = "none"
    /\ gen_out = "none"
    /\ flush_out = "none"

FetchInit ==
    /\ feed \in Feeds
    /\ max_articles \in 1..MaxArticles
    /\ topic_filter \in FetchTopics
    /\ llm_processor \in { None, "OpenAIProcessor" }
    /\ article = [title |-> << >>, summary |-> << >>]
    /\ mt = NoMatchCall
    /\ rf = NoFetchCall
    /\ SetupIdle
    /\ RunAtFetch

fetch_inputs == << feed, max_articles, topic_filter, llm_processor >>

\* fetch up to the loop over feed.entries.
ParseFeed ==
    /\ rf.pc = "start"
    /\ rf' = IF feed.status \in BaseOnlyKinds
               THEN [rf EXCEPT !.pc = "finished",
                               !.outcome = UncaughtOutcome(feed.status)]
             ELSE IF feed.status = "raises"
               THEN [rf EXCEPT !.pc = "finished",
                               !.outcome = FetchErrorOutcome("unexpected")]
             ELSE IF feed.bozo /\ feed.entries = << >>
               THEN [rf EXCEPT !.pc = "finished",
                               !.outcome = FetchErrorOutcome("parse_failed")]
             ELSE IF feed.entries = << >>
               THEN [rf EXCEPT !.pc = "finished",
                               !.outcome = FetchErrorOutcome("no_entries")]
             ELSE [rf EXCEPT !.pc = "loop"]
    /\ UNCHANGED << fetch_inputs, article, mt, setup_vars, run_vars >>

\* One entry of the loop, up to the call of _matches_topic.
NextEntry ==
    /\ rf.pc = "loop"
    /\ rf.pos <= Len(feed.entries)
    /\ LET e == feed.entries[rf.pos]
       IN  IF ~IsValidEntry(e)
             THEN /\ rf' = [rf EXCEPT !.skipped = @ \cup {rf.pos},
                                      !.pos = @ + 1]
                  /\ UNCHANGED << article, mt >>
           ELSE IF topic_filter # << >>
             THEN /\ article' = [title |-> e.title, summary |-> e.summary]
                  /\ mt' = NoMatchCall
                  /\ rf' = [rf EXCEPT !.pc = "matching"]
           ELSE /\ rf' = AfterAppend
                /\ UNCHANGED << article, mt >>
    /\ UNCHANGED << fetch_inputs, setup_vars, run_vars >>

\* Variant of EntryMatched: a rejected entry ends the fetch with a FetchError.
EntryMatchedRaisesOnReject ==
    /\ rf.pc = "matching"
    /\ mt.pc = "done"
    /\ rf' = IF mt.raised # NoException
               THEN [rf EXCEPT !.llm_calls = @ + mt.llm_calls,
                               !.pc = "finished",
                               !.outcome = UncaughtOutcome(mt.raised.kind)]
             ELSE IF mt.result
               THEN [AfterAppend EXCEPT !.llm_calls = @ + mt.llm_calls]
               ELSE [rf EXCEPT !.rejected = @ \cup {rf.pos},
                               !.llm_calls = @ + mt.llm_calls,
                               !.pc = "finished",
                               !.outcome = FetchErrorOutcome("no_match")]
    /\ UNCHANGED << fetch_inputs, article, mt, setup_vars, run_vars >>

\* _matches_topic is over: the article is kept or passed over, or, when
\* _matches_topic was left by an exception, fetch is left by it too.
EntryMatched ==
    /\ rf.pc = "matching"
    /\ mt.pc = "done"
    /\ rf' = IF mt.raised # NoException
               THEN [rf EXCEPT !.llm_calls = @ + mt.llm_calls,
                               !.pc = "finished",
                               !.outcome = UncaughtOutcome(mt.raised.kind)]
             ELSE IF mt.result
               THEN [AfterAppend EXCEPT !.llm_calls = @ + mt.llm_calls]
               ELSE [rf EXCEPT !.rejected = @ \cup {rf.pos},
                               !.llm_calls = @ + mt.llm_calls,
                               !.pos = @ + 1,
                               !.pc = "loop"]
    /\ UNCHANGED << fetch_inputs, article, mt, setup_vars, run_vars >>

\* fetch returns the list `articles`.
ItemsOutcome == [kind |-> "items", detail |-> None, source |-> 0]

\* Variant of ReturnArticles: an empty list is returned like any other.
ReturnArticlesEmptySuccess ==
    /\ \/ rf.pc = "after_loop"
       \/ rf.pc = "loop" /\ rf.pos > Len(feed.entries)
    /\ rf' = [rf EXCEPT !.pc = "finished", !.outcome = ItemsOutcome]
    /\ UNCHANGED << fetch_inputs, article, mt, setup_vars, run_vars >>

\* After the loop: the articles are returned, or FetchError when none is left.
ReturnArticles ==
    /\ \/ rf.pc = "after_loop"
       \/ rf.pc = "loop" /\ rf.pos > Len(feed.entries)
    /\ rf' = IF rf.articles = << >>
               THEN [rf EXCEPT
                       !.pc = "finished",
                       !.outcome = FetchErrorOutcome(
                           IF topic_filter # << >> THEN "no_match"
                                                   ELSE "no_valid")]
               ELSE [rf EXCEPT !.pc = "finished",
                               !.outcome = ItemsOutcome]
    /\ UNCHANGED << fetch_inputs, article, mt, setup_vars, run_vars >>

\* The iteration of the fetch loop of Pipeline.run that called this fetch.
RunFetchesSource ==
    /\ pc = "fetch"
    /\ idx <= Len(sources)
    /\ rf.pc = "finished"
    /\ LET out == IF rf.outcome.kind = "items"
                    THEN [kind |-> "items", n |-> Len(rf.articles)]
                    ELSE [kind |-> rf.outcome.kind, n |-> 0]
       IN  /\ fetch_log' = Append(fetch_log, out)
           /\ FetchResult(sources[idx], out)
    /\ calls' = [calls EXCEPT !.fetch = @ + 1]
    /\ now' = now + 1
    /\ UNCHANGED << config, duration_set, synthesis, returned, start_time,
                    proc_out, save_out, gen_out, flush_out >>

\* _matches_topic runs while fetch waits for it.
MatchingStep ==
    /\ rf.pc = "matching"
    /\ FilterNext

FetchNext ==
    \/ ParseFeed
    \/ NextEntry
    \/ MatchingStep
    \/ EntryMatched
    \/ ReturnArticles
    \/ RunFetchesSource

FetchSpec == FetchInit /\ [][FetchNext]_vars

-----------------------------------------------------------------------------
(* RSS fetch: claims *)

\* The fetch loop of Pipeline.run has handled the outcome of the fetch.
FetchHandled == rf.pc = "finished" /\ calls.fetch = 1

\* C20 as stated: however many entries the filter rejected, the run records
\* no error and does not mark the source as failed.
C20_RejectionSilentAsStated ==
    (FetchHandled /\ rf.rejected # {})
        => (results.errors = << >> /\ failed_sources = << >>)

\* C20: an entry the filter rejects is passed over: it is not among the
\* articles and the loop goes on to the next entry. When at least one entry
\* of the source is kept the run records no error and does not mark the
\* source as failed, however many entries were rejected; when no entry is
\* kept, fetch raises FetchError and the run records a 'fetch' error and
\* marks the source as failed.
C20_RejectionSilent ==
    /\ \A i \in rf.rejected :
          /\ \A k \in 1..Len(rf.articles) : rf.articles[k] # i
          /\ rf.pc = "finished" =>
                (rf.outcome.kind = "FetchError" => rf.articles = << >>)
    /\ (rf.rejected # {} /\ rf.outcome.kind = "FetchError")
         => (rf.outcome.detail = "no_match"
               /\ rf.pos > Len(feed.entries))
    /\ (FetchHandled /\ rf.rejected # {} /\ rf.articles # << >>)
         => /\ results.errors = << >>
            /\ failed_sources = << >>
            /\ mt.raised = NoException
                 => Len(all_articles) = Len(rf.articles)
    /\ (FetchHandled /\ rf.rejected # {} /\ rf.articles = << >>
          /\ mt.raised = NoException)
         => /\ results.errors = << FetchErrorEntry(1) >>
            /\ failed_sources = << 1 >>
            /\ all_articles = << >>

\* One entry rejected, a later one kept: no error, source not failed.
C20_Witness ==
    /\ FetchHandled
    /\ rf.rejected = {1}
    /\ rf.articles = << 2 >>
    /\ results.errors = << >>
    /\ failed_sources = << >>

\* The entry of the feed that the k-th returned article was parsed from.
EntryOf(k) == feed.entries[rf.articles[k]]

\* An entry whose title and link are both non-empty.
HasTitleAndLink(e) == e.title # << >> /\ e.link = TRUE

\* C21 as stated: a finished fetch has either returned a list that is not
\* empty and holds only articles with a title and a link, at most
\* max_articles of them and each accepted by the filter, or raised a
\* FetchError that carries the source it was called with and returned
\* nothing.
C21_NeverEmptySuccessAsStated ==
    rf.pc = "finished"
        => \/ /\ rf.outcome.kind = "items"
              /\ rf.articles # << >>
              /\ Len(rf.articles) <= max_articles
              /\ \A k \in 1..Len(rf.articles) :
                    /\ HasTitleAndLink(EntryOf(k))
                    /\ rf.articles[k] \notin rf.rejected
           \/ /\ rf.outcome.kind = "FetchError"
              /\ rf.outcome.source = sources[1]
              /\ rf.articles = << >>

\* C21 amended: a fetch that returned has returned a list that is not empty
\* and holds only articles with a title and a link, at most max_articles of
\* them and each accepted by the filter; a fetch that did not return has
\* raised a FetchError that carries the source it was called with, with no
\* article collected, or was left by the KeyboardInterrupt or SystemExit that
\* feedparser.parse or the call of the semantic backend was left by.
C21_NeverEmptySuccess ==
    rf.pc = "finished"
        => \/ /\ rf.outcome.kind = "items"
              /\ rf.articles # << >>
              /\ Len(rf.articles) <= max_articles
              /\ \A k \in 1..Len(rf.articles) :
                    /\ HasTitleAndLink(EntryOf(k))
                    /\ rf.articles[k] \notin rf.rejected
           \/ /\ rf.outcome.kind = "FetchError"
              /\ rf.outcome.source = sources[1]
              /\ rf.articles = << >>
              /\ feed.status \notin BaseOnlyKinds
              /\ mt.raised = NoException
           \/ /\ rf.outcome.kind \in BaseOnlyKinds
              /\ \/ feed.status = rf.outcome.kind
                 \/ mt.raised = Exc(rf.outcome.kind, None)

\* Every entry is rejected by the filter: FetchError, not an empty list.
C21_Witness ==
    /\ rf.pc = "finished"
    /\ Len(feed.entries) = 2
    /\ rf.rejected = {1, 2}
    /\ rf.outcome = [kind |-> "FetchError", detail |-> "no_match", source |-> 1]

\* C22: every article collected by fetch, and every item of the batch of the
\* run that called it, comes from an entry with a non-empty title and a
\* link; an entry without one of them is passed over, is never among the
\* articles, and does not by itself make the fetch fail.
C22_BatchItemsValid ==
    /\ \A k \in 1..Len(rf.articles) : HasTitleAndLink(EntryOf(k))
    /\ \A i \in rf.skipped :
          /\ ~HasTitleAndLink(feed.entries[i])
          /\ \A k \in 1..Len(rf.articles) : rf.articles[k] # i
    /\ \A i \in 1..Len(feed.entries) :
          (i < rf.pos /\ ~HasTitleAndLink(feed.entries[i])) => i \in rf.skipped
    /\ Len(all_articles) <= Len(rf.articles)
    /\ \A k \in 1..Len(all_articles) :
          /\ all_articles[k] = Item(1, k)
          /\ HasTitleAndLink(EntryOf(all_articles[k].n))
    /\ (rf.pc = "finished" /\ rf.skipped # {} /\ rf.articles # << >>
          /\ mt.raised = NoException)
         => rf.outcome.kind = "items"
    /\ (FetchHandled /\ rf.outcome.kind = "items")
         => (Len(all_articles) = Len(rf.articles) /\ results.errors = << >>)

\* An entry without a link and one without a title are passed over, the
\* third is the batch.
C22_Witness ==
    /\ FetchHandled
    /\ rf.skipped = {1, 2}
    /\ feed.entries[1].link = FALSE
    /\ feed.entries[2].title = << >>
    /\ rf.articles = << 3 >>
    /\ all_articles = << Item(1, 1) >>

-----------------------------------------------------------------------------
(* Pipeline.run: preconditions, cancellation, error kinds, batch *)

\* run was called with an empty list of sources and both components.
EmptySourceList ==
    /\ sources = << >>
    /\ sources_kind = "list"
    /\ fetcher
    /\ processor

\* C23: a run called with an empty list of sources does not fail in the
\* fetch phase: it raises no FetchError and does not go from FETCHING to
\* FAILED.
C23_EmptySourcesNotFetchFailure ==
    EmptySourceList
        => /\ raised.kind # "FetchError"
           /\ pc # "except_aggregator"
           /\ Phase # "FAILED"

\* C24: an interrupt of fetch, process, save or generate always leaves run
\* as a KeyboardInterrupt: the run goes straight to the metrics flush,
\* save_metrics is called exactly once before run exits, run does not
\* return, and the interrupted call adds nothing to results['errors'] or to
\* the failed sources (they hold only the failures recorded before it).  An
\* interrupt of save_metrics itself leaves run as well.  Only a SystemExit
\* raised by save_metrics takes the place of an interrupt.
C24_InterruptFlushesMetrics ==
    /\ Interrupted <=>
          \/ AnyCallInterrupted /\ flush_out # "SystemExit"
          \/ flush_out = "KeyboardInterrupt"
    /\ flush_out = "KeyboardInterrupt"
         => (pc = "done" /\ calls.save_metrics = 1 /\ ~returned)
    /\ AnyCallInterrupted
         => /\ pc \in {"finally", "done"}
            /\ raised.kind \in BaseOnlyKinds
            /\ calls.save_metrics = (IF pc = "done" THEN 1 ELSE 0)
            /\ ~returned
            /\ ~results.success
            /\ Len(failed_sources) = Cardinality(FailedFetches)
            /\ ErrorsOfPhase("fetch") = Cardinality(FailedFetches)
            /\ Len(results.errors)
                 = Cardinality(FailedFetches) + (IF SaveFailed THEN 1 ELSE 0)
            /\ (Len(fetch_log) > 0
                  /\ fetch_log[Len(fetch_log)].kind = "KeyboardInterrupt")
                 => (calls.process = 0 /\ Len(fetch_log) = idx)

\* The second fetch is interrupted after the first one failed.
C24_Witness ==
    /\ pc = "done"
    /\ Interrupted
    /\ Len(sources) = 3
    /\ Len(fetch_log) = 2
    /\ fetch_log[1].kind = "FetchError"
    /\ fetch_log[2].kind = "KeyboardInterrupt"
    /\ calls.save_metrics = 1
    /\ results.errors = << FetchErrorEntry(1) >>

\* AggregatorError and its subclasses.
AggregatorErrorKinds ==
    { "AggregatorError", "FetchError", "ProcessError", "StorageError",
      "ConfigError" }

\* C25: a run that is over and was not left by a KeyboardInterrupt or a
\* SystemExit has either returned or raised an AggregatorError (the class or
\* a subclass); within the try block an exception of
\* another class never leaves run: the TypeError of a sources argument that
\* cannot be iterated or measured leaves as AggregatorError raised from it,
\* and an exception of another class from processor.process leaves as
\* ProcessError("unknown").
C25_OnlyAggregatorErrorEscapes ==
    /\ (pc = "done" /\ raised.kind \notin BaseOnlyKinds)
         => \/ returned /\ raised = NoException
            \/ ~returned /\ raised.kind \in AggregatorErrorKinds
    /\ raised.kind \in BaseOnlyKinds => (AnyCallInterrupted \/ FlushEscaped)
    /\ pc \in {"finally", "done"} => raised.kind \notin {"TypeError", "Exception"}
    /\ (pc \in {"finally", "done"} /\ sources_kind = "none"
          /\ fetcher /\ processor /\ ~FlushEscaped)
         => raised = Exc("AggregatorError", "TypeError")
    /\ (raised.kind = "AggregatorError" /\ raised.detail # None)
         => (raised.detail = "TypeError" /\ sources_kind # "list")
    /\ (proc_out = "Exception" /\ ~FlushEscaped)
         => raised = Exc("ProcessError", "unknown")

\* The length of an iterator of sources is asked for after a fetch returned.
C25_Witness ==
    /\ pc = "done"
    /\ sources_kind = "iterator"
    /\ raised = Exc("AggregatorError", "TypeError")
    /\ Len(all_articles) = 1
    /\ ~returned

-----------------------------------------------------------------------------
(* Relevance filter: the semantic decision *)

\* The text, after its leading whitespace, begins with the letters y, e, s
\* in either case; a sharp s, whose capital is SS, counts as the s.
BeginsWithYes(text) ==
    \E i \in 1..Len(text) :
        /\ \A j \in 1..(i - 1) : text[j] \in Whitespace
        /\ i + 2 <= Len(text)
        /\ text[i] \in { "y", "Y" }
        /\ text[i + 1] \in { "e", "E" }
        /\ text[i + 2] \in { "s", "S", "ß" }

\* C26: when the backend answers with a text, _matches_topic returns true
\* iff the text, trimmed and upper-cased, starts with 'YES'; for every other
\* text it returns false, whatever the keyword heuristic says, which is not
\* consulted.
C26_SemanticDecision ==
    (mt.pc = "done" /\ mt.response.kind = "text")
        => /\ mt.result <=> BeginsWithYes(mt.response.text)
           /\ mt.path = "semantic"
           /\ mt.llm_calls = 1
           /\ ~BeginsWithYes(mt.response.text) => ~mt.result

\* 'Maybe yes' is not relevant although the keyword heuristic accepts.
C26_Witness ==
    /\ mt.pc = "done"
    /\ mt.response.kind = "text"
    /\ mt.response.text = << "M", "a", "y", "b", "e", " ", "y", "e", "s" >>
    /\ KeywordMatch(topic_filter, article)
    /\ ~mt.result

-----------------------------------------------------------------------------
(* Pipeline.run: the batch *)

\* C27: the batch is at every point the concatenation, in call order, of the
\* lists the successful fetches returned, each in its own order, and nothing
\* else: a failed fetch adds no item, no item is left out or merged with an
\* equal one, and the batch processor.process is called with is the one
\* built from the fetch of every source of the list.
C27_BatchIsConcatenation ==
    /\ all_articles = BatchOf(Len(fetch_log))
    /\ Len(all_articles) = ItemsReturned(Len(fetch_log))
    /\ \A i \in 1..Len(fetch_log) :
          sources[i] \in { all_articles[k].source : k \in 1..Len(all_articles) }
             => \E j \in 1..Len(fetch_log) :
                   sources[j] = sources[i] /\ FetchSucceeded(j)
    /\ (calls.process > 0 \/ pc \in {"process", "store", "render", "success"})
         => /\ Len(fetch_log) = Len(sources)
            /\ all_articles = BatchOf(Len(sources))
            /\ all_articles # << >>

\* The same source listed twice: its items are in the batch twice.
C27_Witness ==
    /\ calls.process = 1
    /\ sources = << 1, 1 >>
    /\ all_articles = << Item(1, 1), Item(1, 2), Item(1, 1) >>

-----------------------------------------------------------------------------
(* Pipeline.run: the configuration precondition *)

\* C28: on a pipeline without a fetcher or without a processor, run calls
\* neither fetch nor process, save or generate, records no error, leaves
\* success false, and ends by raising AggregatorError after the one call of
\* save_metrics (which, when interrupted, leaves run with its own exception).
C28_PreconditionFirst ==
    (~fetcher \/ ~processor)
        => /\ calls.fetch = 0
           /\ calls.process = 0
           /\ calls.save = 0
           /\ calls.generate = 0
           /\ fetch_log = << >>
           /\ all_articles = << >>
           /\ ~results.success
           /\ results.errors = << >>
           /\ pc \in {"init", "validate", "except_aggregator", "finally", "done"}
           /\ (pc \in {"except_aggregator", "finally", "done"} /\ ~FlushEscaped)
                => raised = Exc("AggregatorError", None)
           /\ pc = "done" => (~returned /\ calls.save_metrics = 1)

\* No fetcher, three sources: run is over and nothing was fetched.
C28_Witness ==
    /\ pc = "done"
    /\ ~fetcher
    /\ processor
    /\ Len(sources) = 3
    /\ calls = [NoCalls EXCEPT !.save_metrics = 1]
    /\ raised = Exc("AggregatorError", None)

-----------------------------------------------------------------------------
(* create_pipeline: fallback and the assembled pipeline *)

\* The place of a provider in the order of Config.get_available_providers.
Priority(p) ==
    CASE p = "anthropic" -> 1
      [] p = "openai" -> 2
      [] p = "gemini" -> 3
      [] OTHER -> 4

\* The providers with a key other than the selected one that construct.
WorkingOthers == { p \in cfg_keys \ {cp.provider} : Constructs(p) }

\* C29: when the construction of the processor of the selected provider
\* raises ConfigError, create_pipeline tries the other providers with a key
\* in the order anthropic, openai, gemini, up to the first that constructs,
\* and returns the pipeline with that one; it raises
\* ConfigError("LLM_PROVIDER") iff none of them constructs; a pipeline it
\* returns always has a processor that was constructed.
C29_FallbackOnConstruction ==
    /\ (entry = "create_pipeline" /\ cp.pc = "done" /\ cfg_keys # {}
          /\ GetLlmProcessor(cp.provider).error.kind = "ConfigError")
         => LET \* what the statement expects to be tried: every other
                \* provider with a key, up to the first that constructs
                expected == { p \in cfg_keys \ {cp.provider} :
                                \A q \in WorkingOthers :
                                    Priority(p) <= Priority(q) }
            IN
            /\ cp.attempts[1] = cp.provider
            /\ Len(cp.attempts) = 1 + Cardinality(expected)
            /\ \A i \in 2..Len(cp.attempts) :
                  /\ cp.attempts[i] \in expected
                  /\ i > 2 => Priority(cp.attempts[i - 1])
                                 < Priority(cp.attempts[i])
            /\ cp.raised = Exc("ConfigError", "LLM_PROVIDER")
                 <=> WorkingOthers = {}
            /\ WorkingOthers # {}
                 => /\ cp.raised = NoException
                    /\ cp.pipeline.built
                    /\ cp.pipeline.processor \in WorkingOthers
                    /\ \A q \in WorkingOthers :
                          Priority(cp.pipeline.processor) <= Priority(q)
    /\ (entry = "create_pipeline" /\ cp.pc = "done" /\ Constructs(cp.provider))
         => (cp.attempts = << cp.provider >>
               /\ cp.pipeline.processor = cp.provider)
    /\ cp.pipeline.built
         => /\ cp.pipeline.processor \in KnownProviders
            /\ Constructs(cp.pipeline.processor)
            /\ cp.raised = NoException
    /\ (entry = "create_pipeline" /\ cp.pc = "done")
         => (cp.pipeline.built <=> cp.raised = NoException)

\* The fetcher has the llm_processor that create_pipeline gives it.
FetcherAsAssembled ==
    \E p \in KnownProviders :
        llm_processor = AssembledPipeline(p).fetcher_llm_processor

\* C30: the fetcher of the pipeline create_pipeline assembles has no
\* llm_processor, and a fetch by such a fetcher issues no backend call:
\* every call of _matches_topic takes the keyword path and returns the value
\* of the keyword heuristic, and an entry is kept iff that value is true.
C30_KeywordOnlyFilter ==
    /\ \A p \in KnownProviders :
          AssembledPipeline(p).fetcher_llm_processor = None
    /\ FetcherAsAssembled
         => /\ rf.llm_calls = 0
            /\ mt.llm_calls = 0
            /\ mt.response = NoResponse
            /\ mt.path \in {"none", "keyword"}
            /\ mt.pc \in {"start", "keyword_match", "done"}
            /\ (rf.pc = "matching" /\ mt.pc = "done")
                 => (mt.path = "keyword"
                       /\ (mt.result <=> KeywordMatch(topic_filter, article)))
            /\ topic_filter # << >>
                 => /\ \A i \in rf.rejected :
                          ~KeywordMatch(topic_filter, feed.entries[i])
                    /\ \A k \in 1..Len(rf.articles) :
                          KeywordMatch(topic_filter, EntryOf(k))

\* Three entries filtered by keyword alone: one rejected, two kept.
C30_Witness ==
    /\ FetchHandled
    /\ llm_processor = None
    /\ topic_filter = << "e" >>
    /\ rf.rejected = {2}
    /\ rf.articles = << 1, 3 >>
    /\ rf.llm_calls = 0

====
